---------------------------- MODULE Spec2Model ----------------------------
(***************************************************************************)
(* A model of the RakNet reliability layer of amethyst (src/src/raknet):   *)
(* the receive window, the split reassembler, the send window and the      *)
(* session that wires them to the socket.                                  *)
(*                                                                         *)
(* Conventions.                                                            *)
(*   Option<T>   None is <<>>, Some(v) is <<v>>.                           *)
(*   Bytes       a run-length list: <<[byte |-> b, n |-> k], ...>> is k    *)
(*               bytes of value b, then the next run; adjacent runs carry  *)
(*               different byte values.                                    *)
(*   HashMap /   a function whose DOMAIN is the set of keys present.       *)
(*   BTreeMap                                                              *)
(*   struct      a record with the fields of the Rust struct.              *)
(*   method      an operator from the struct (and the arguments) to a      *)
(*               record holding the struct afterwards and the value        *)
(*               returned.                                                 *)
(*   Instant     microseconds, as an integer.                              *)
(*   Duration    a record of whole seconds and nanoseconds.                *)
(***************************************************************************)
EXTENDS Integers, Sequences, FiniteSets, TLC

VARIABLES
    rw,        \* RakNetSession.receive_window : ReceiveWindow
    sh,        \* RakNetSession.split_handler  : SplitPacketHandler
    sw,        \* RakNetSession.send_window    : SendWindow
    clock,     \* what Instant::now() returns
    sess,      \* RakNetSession: state and last_activity
    env,       \* the network and the peer at the other end of the socket
    last,      \* the most recent call: its name, its arguments, what it returned
    hist       \* what has been observed so far (history, not program state)

vars == <<rw, sh, sw, sess, env, clock, last, hist>>

---------------------------------------------------------------------------
(* Option, maps and bytes                                                  *)

None == <<>>

Some(v) == <<v>>

IsSome(o) == o /= <<>>

Unwrap(o) == o[1]

EmptyMap == <<>>

MapHas(m, k) == k \in DOMAIN m

MapPut(m, k, v) == [x \in (DOMAIN m) \cup {k} |-> IF x = k THEN v ELSE m[x]]

MapRemove(m, k) == [x \in (DOMAIN m) \ {k} |-> m[x]]

Max(a, b) == IF a >= b THEN a ELSE b

Min(a, b) == IF a <= b THEN a ELSE b

SetMax(S) == CHOOSE x \in S : \A y \in S : y <= x

SetMin(S) == CHOOSE x \in S : \A y \in S : x <= y

\* The elements of S that lie in lo .. hi, in ascending order. The interval
\* is cut in the middle, which keeps the depth of the evaluation logarithmic
\* in its length.
RECURSIVE SortedBetween(_, _, _)
SortedBetween(S, lo, hi) ==
    IF S = {} THEN <<>>
    ELSE IF lo = hi THEN <<lo>>
    ELSE LET mid == lo + ((hi - lo) \div 2)
         IN  SortedBetween({x \in S : x <= mid}, lo, mid)
             \o SortedBetween({x \in S : x > mid}, mid + 1, hi)

\* The elements of a set of numbers (below 2^31) in ascending order.
SortedSeq(S) == SortedBetween(S, 0, 2147483647)

\* The set of the elements of a sequence.
Range(s) == {s[i] : i \in DOMAIN s}

\* s with x inserted before its first element greater than x (s ascending).
RECURSIVE InsertSorted(_, _)
InsertSorted(s, x) ==
    IF s = <<>> THEN <<x>>
    ELSE IF x < Head(s) THEN <<x>> \o s
    ELSE <<Head(s)>> \o InsertSorted(Tail(s), x)

\* slice::sort_unstable on numbers: the same elements, repeats kept, ascending.
RECURSIVE sort_unstable(_)
sort_unstable(s) ==
    IF s = <<>> THEN <<>> ELSE InsertSorted(sort_unstable(Tail(s)), Head(s))

\* Bytes::len
RECURSIVE BytesLen(_)
BytesLen(b) == IF b = <<>> THEN 0 ELSE Head(b).n + BytesLen(Tail(b))

\* BytesMut::extend_from_slice: the bytes of a followed by those of b.
BytesConcat(a, b) ==
    IF a = <<>> THEN b
    ELSE IF b = <<>> THEN a
    ELSE IF a[Len(a)].byte = b[1].byte
         THEN SubSeq(a, 1, Len(a) - 1)
              \o <<[byte |-> b[1].byte, n |-> a[Len(a)].n + b[1].n]>>
              \o Tail(b)
         ELSE a \o b

\* k bytes of value v.
Fill(v, k) == IF k = 0 THEN <<>> ELSE <<[byte |-> v, n |-> k]>>

\* u32::wrapping_sub(a, b) > lim, for a, b, lim below 2^31. The difference of
\* a < b wraps to 2^32 - (b - a); the comparison is rearranged so that no
\* intermediate value leaves the 32-bit signed range of the checker.
WrappingSubExceeds(a, b, lim) ==
    IF a >= b THEN a - b > lim
    ELSE (b - a) - 2147483647 - 1 < (2147483647 - lim) + 1

---------------------------------------------------------------------------
(* protocol/datagram.rs                                                    *)

ReliabilityValues ==
    { "Unreliable", "UnreliableSequenced", "Reliable", "ReliableOrdered",
      "ReliableSequenced", "UnreliableWithAckReceipt", "ReliableWithAckReceipt",
      "ReliableOrderedWithAckReceipt" }

is_reliable(r) ==
    r \in { "Reliable", "ReliableOrdered", "ReliableSequenced",
            "ReliableWithAckReceipt", "ReliableOrderedWithAckReceipt" }

is_ordered(r) == r \in { "ReliableOrdered", "ReliableOrderedWithAckReceipt" }

is_sequenced(r) == r \in { "UnreliableSequenced", "ReliableSequenced" }

needs_ordering_info(r) == is_ordered(r) \/ is_sequenced(r)

\* struct EncapsulatedPacket
EncapsulatedPacket(rel, split, mi, si, oi, oc, scount, sid, sidx, buf, ack) ==
    [ reliability |-> rel, is_split |-> split, message_index |-> mi,
      sequence_index |-> si, order_index |-> oi, order_channel |-> oc,
      split_count |-> scount, split_id |-> sid, split_index |-> sidx,
      buffer |-> buf, ack_id |-> ack ]

\* EncapsulatedPacket::header_size
header_size(p) ==
    (1 + 2)
    + (IF is_reliable(p.reliability) THEN 3 ELSE 0)
    + (IF is_sequenced(p.reliability) THEN 3 ELSE 0)
    + (IF is_ordered(p.reliability) \/ is_sequenced(p.reliability) THEN 3 + 1 ELSE 0)
    + (IF p.is_split THEN 4 + 2 + 4 ELSE 0)

\* EncapsulatedPacket::calculate_size
calculate_size(p) == header_size(p) + BytesLen(p.buffer)

\* Datagram::new: the metadata fields next_send_time and header_flags, which no
\* modelled code reads after construction, are left out.
Datagram_new(seq) ==
    [ sequence_number |-> seq, packets |-> <<>>, send_time |-> None,
      size_for_congestion_control |-> None ]

\* Datagram::calculate_size
RECURSIVE PacketsSize(_)
PacketsSize(ps) ==
    IF ps = <<>> THEN 0 ELSE calculate_size(Head(ps)) + PacketsSize(Tail(ps))

Datagram_calculate_size(d) == (1 + 3) + PacketsSize(d.packets)

---------------------------------------------------------------------------
(* protocol/ack.rs                                                         *)

MAX_RANGE_SIZE == 512

Single(n) == [kind |-> "Single", start |-> n, end |-> n]

RangeRec(a, b) == [kind |-> "Range", start |-> a, end |-> b]

\* The body of the for loop of optimize_ack_nack_records, for one seq_num.
\* st = [records, start, current].
OptimizeStep(st, seq_num) ==
    LET afterGap ==
            IF seq_num = st.current + 1
            THEN [st EXCEPT !.current = seq_num]
            ELSE LET recs1 ==
                         IF st.start = st.current
                         THEN Append(st.records, Single(st.start))
                         ELSE LET actual_end ==
                                      IF st.current - st.start >= MAX_RANGE_SIZE
                                      THEN st.start + MAX_RANGE_SIZE - 1
                                      ELSE st.current
                                  r1 == Append(st.records, RangeRec(st.start, actual_end))
                              IN  IF actual_end < st.current
                                  THEN IF actual_end + 1 < st.current
                                       THEN Append(r1, RangeRec(actual_end + 1, st.current))
                                       ELSE IF actual_end + 1 = st.current
                                            THEN Append(r1, Single(st.current))
                                            ELSE r1
                                  ELSE r1
                 IN  [records |-> recs1, start |-> seq_num, current |-> seq_num]
    IN  IF afterGap.current - afterGap.start >= MAX_RANGE_SIZE
        THEN [ records |-> Append(afterGap.records,
                                  RangeRec(afterGap.start, afterGap.current)),
               start |-> afterGap.current + 1,
               current |-> afterGap.current + 1 ]
        ELSE afterGap

\* The for loop of optimize_ack_nack_records over rest, first element first.
\* The list is walked half by half, which keeps the depth of the evaluation
\* logarithmic in its length.
RECURSIVE OptimizeLoop(_, _)
OptimizeLoop(st, rest) ==
    IF rest = <<>> THEN st
    ELSE IF Len(rest) = 1 THEN OptimizeStep(st, rest[1])
    ELSE CHOOSE out \in
             { OptimizeLoop(mid, SubSeq(rest, (Len(rest) \div 2) + 1, Len(rest))) :
                   mid \in {OptimizeLoop(st, SubSeq(rest, 1, Len(rest) \div 2))} } : TRUE

\* optimize_ack_nack_records
optimize_ack_nack_records(sorted_seq_nums) ==
    IF sorted_seq_nums = <<>> THEN <<>>
    ELSE LET st == OptimizeLoop([ records |-> <<>>, start |-> sorted_seq_nums[1],
                                  current |-> sorted_seq_nums[1] ],
                                Tail(sorted_seq_nums))
         IN  IF st.start = st.current
             THEN Append(st.records, Single(st.start))
             ELSE Append(st.records, RangeRec(st.start, st.current))

\* AckNack::extract_sequence_numbers, as the set of the numbers it lists.
extract_sequence_numbers(records) ==
    UNION { IF records[i].kind = "Single" THEN {records[i].start}
            ELSE records[i].start .. records[i].end : i \in DOMAIN records }

---------------------------------------------------------------------------
(* reliability/receive_window.rs                                           *)

MAX_RECV_WINDOW_SIZE == 2048

\* u32::wrapping_add(x, 1). Every counter of the model stays below 2^31, so
\* the sum never reaches 2^32.
wrapping_add1(x) == x + 1

\* ReceiveWindow::new
ReceiveWindow_new ==
    [ expected_sequence_number |-> 0,
      received_datagrams |-> {},
      highest_received_in_window |-> 0,
      ordering_queues |-> EmptyMap,
      next_order_indices |-> EmptyMap,
      ack_queue |-> <<>>,
      nack_queue |-> {} ]

\* The duplicate test without the lookup in received_datagrams: what the
\* exactly-once property of duplicates rests on.
IsDuplicateDatagramNoLookup(w, seq) == seq < w.expected_sequence_number

\* handle_datagram, step 1: the duplicate test.
IsDuplicateDatagram(w, seq) ==
    seq < w.expected_sequence_number \/ seq \in w.received_datagrams

\* handle_datagram, the window size check.
OutsideWindow(w, seq) ==
    IF w.received_datagrams /= {}
    THEN WrappingSubExceeds(seq, SetMax(w.received_datagrams), MAX_RECV_WINDOW_SIZE)
    ELSE WrappingSubExceeds(seq, w.expected_sequence_number, MAX_RECV_WINDOW_SIZE)

\* handle_datagram, step 3: the sequences between expected and seq that were
\* not received join the NACK queue.
QueueNacks(w, seq) ==
    IF seq > w.expected_sequence_number
    THEN w.nack_queue
         \cup { m \in w.expected_sequence_number .. (seq - 1) :
                    m \notin w.received_datagrams }
    ELSE w.nack_queue

\* handle_datagram, step 4: the while loop that advances
\* expected_sequence_number.
RECURSIVE AdvanceExpected(_)
AdvanceExpected(w) ==
    IF w.expected_sequence_number \in w.received_datagrams
    THEN AdvanceExpected(
             [w EXCEPT !.received_datagrams = @ \ {w.expected_sequence_number},
                       !.nack_queue = @ \ {w.expected_sequence_number},
                       !.expected_sequence_number = wrapping_add1(@)])
    ELSE w

\* handle_datagram, step 5: the inner while loop that releases the queued
\* packets of one channel that are now in order.
\* st = [queue, next, ready].
RECURSIVE DrainQueue(_)
DrainQueue(st) ==
    IF MapHas(st.queue, st.next)
    THEN DrainQueue([ queue |-> MapRemove(st.queue, st.next),
                      next |-> wrapping_add1(st.next),
                      ready |-> Append(st.ready, st.queue[st.next]) ])
    ELSE st

\* An ordering step that returns a packet that is ahead of the expected index
\* instead of queueing it: what the gap-free delivery property rests on.
OrderPacketNoQueue(st, packet, order_index) ==
    IF order_index >= st.next
    THEN DrainQueue([ queue |-> st.queue, next |-> wrapping_add1(st.next),
                      ready |-> Append(st.ready, packet) ])
    ELSE st

\* What an ordered packet does to its channel: returned and the queue drained
\* when it is the expected one, queued when it is ahead, dropped when behind.
\* st = [queue, next, ready].
OrderPacket(st, packet, order_index) ==
    IF order_index = st.next
    THEN DrainQueue([ queue |-> st.queue, next |-> wrapping_add1(st.next),
                      ready |-> Append(st.ready, packet) ])
    ELSE IF order_index > st.next
         THEN [st EXCEPT !.queue = MapPut(@, order_index, packet)]
         ELSE st

\* handle_datagram, step 5: the body of the for loop, for one packet.
\* st = [ordering_queues, next_order_indices, ready].
ProcessPacket(st, packet) ==
    IF needs_ordering_info(packet.reliability)
    THEN IF IsSome(packet.order_channel) /\ IsSome(packet.order_index)
         THEN LET channel == Unwrap(packet.order_channel)
                  queue == IF MapHas(st.ordering_queues, channel)
                           THEN st.ordering_queues[channel] ELSE EmptyMap
                  next == IF MapHas(st.next_order_indices, channel)
                          THEN st.next_order_indices[channel] ELSE 0
                  r == OrderPacket([queue |-> queue, next |-> next, ready |-> st.ready],
                                   packet, Unwrap(packet.order_index))
              IN  [ ordering_queues |-> MapPut(st.ordering_queues, channel, r.queue),
                    next_order_indices |-> MapPut(st.next_order_indices, channel, r.next),
                    ready |-> r.ready ]
         ELSE st
    ELSE [st EXCEPT !.ready = Append(@, packet)]

RECURSIVE ProcessPackets(_, _)
ProcessPackets(st, packets) ==
    IF packets = <<>> THEN st
    ELSE ProcessPackets(ProcessPacket(st, Head(packets)), Tail(packets))

\* ReceiveWindow::handle_datagram. accepted tells the early returns of the
\* duplicate test and the window check from the rest.
ReceiveWindow_handle_datagram(w, datagram) ==
    LET seq == datagram.sequence_number
    IN  IF IsDuplicateDatagram(w, seq) \/ OutsideWindow(w, seq)
        THEN [rw |-> w, ret |-> None, accepted |-> FALSE]
        ELSE LET w2 == [w EXCEPT !.received_datagrams = @ \cup {seq},
                                 !.ack_queue = Append(@, seq),
                                 !.nack_queue = @ \ {seq},
                                 !.highest_received_in_window = Max(@, seq)]
                 w3 == [w2 EXCEPT !.nack_queue = QueueNacks(w2, seq)]
                 w4 == AdvanceExpected(w3)
                 r == ProcessPackets([ ordering_queues |-> w4.ordering_queues,
                                       next_order_indices |-> w4.next_order_indices,
                                       ready |-> <<>> ],
                                     datagram.packets)
             IN  [ rw |-> [w4 EXCEPT !.ordering_queues = r.ordering_queues,
                                     !.next_order_indices = r.next_order_indices],
                   ret |-> IF r.ready = <<>> THEN None ELSE Some(r.ready),
                   accepted |-> TRUE ]

\* ReceiveWindow::create_ack_packet
create_ack_packet(w) ==
    IF w.ack_queue = <<>>
    THEN [rw |-> w, ret |-> None]
    ELSE [ rw |-> [w EXCEPT !.ack_queue = <<>>],
           ret |-> Some([ is_nack |-> FALSE,
                          records |-> optimize_ack_nack_records(
                                          sort_unstable(w.ack_queue)) ]) ]

\* ReceiveWindow::create_nack_packet
create_nack_packet(w) ==
    IF w.nack_queue = {}
    THEN [rw |-> w, ret |-> None]
    ELSE [ rw |-> [w EXCEPT !.nack_queue = {}],
           ret |-> Some([ is_nack |-> TRUE,
                          records |-> optimize_ack_nack_records(
                                          SortedSeq(w.nack_queue)) ]) ]

---------------------------------------------------------------------------
(* reliability/split_handler.rs                                            *)

MAX_CONCURRENT_SPLITS == 64

MAX_SPLIT_PARTS == 128

SPLIT_PACKET_TIMEOUT == 30000000

Ok(v) == [ok |-> TRUE, val |-> v]

Err(e) == [ok |-> FALSE, err |-> e]

\* SplitPacketHandler::new
SplitPacketHandler_new == [reassembly_map |-> EmptyMap]

\* handle_packet: the tracker inserted for the first fragment seen of a split id.
NewReassembly(packet, split_count, now) ==
    [ expected_count |-> split_count,
      parts |-> [i \in 1 .. split_count |-> None],
      total_size |-> 0,
      first_part_time |-> now,
      base_packet_info |->
          EncapsulatedPacket(packet.reliability, FALSE, packet.message_index,
                             packet.sequence_index, packet.order_index,
                             packet.order_channel, None, None, None, <<>>,
                             packet.ack_id) ]

\* The final buffer with the parts taken from the last index down to the
\* first: what the index order of the completed payload rests on.
RECURSIVE ConcatPartsReversed(_)
ConcatPartsReversed(parts) ==
    IF parts = <<>> THEN <<>>
    ELSE BytesConcat(ConcatPartsReversed(Tail(parts)), Unwrap(Head(parts)))

\* handle_packet: the final buffer, the parts in index order.
RECURSIVE ConcatParts(_)
ConcatParts(parts) ==
    IF parts = <<>> THEN <<>>
    ELSE BytesConcat(Unwrap(Head(parts)), ConcatParts(Tail(parts)))

\* handle_packet, from "Store the part" on. reassembly is the tracker of
\* split_id, which the map holds already.
StorePart(h, split_id, split_index, packet) ==
    LET reassembly == h.reassembly_map[split_id]
        i == split_index + 1
    IN  IF IsSome(reassembly.parts[i])
        THEN [sh |-> h, ret |-> Ok(None)]
        ELSE LET stored == [reassembly EXCEPT
                                !.parts[i] = Some(packet.buffer),
                                !.total_size = @ + BytesLen(packet.buffer)]
             IN  IF \A k \in DOMAIN stored.parts : IsSome(stored.parts[k])
                 THEN [ sh |-> [h EXCEPT !.reassembly_map = MapRemove(@, split_id)],
                        ret |-> Ok(Some(ConcatParts(stored.parts))) ]
                 ELSE [ sh |-> [h EXCEPT !.reassembly_map[split_id] = stored],
                        ret |-> Ok(None) ]

\* The limit test one too late: what the bound of the map rests on.
AtSplitLimitOffByOne(h) == Cardinality(DOMAIN h.reassembly_map) > MAX_CONCURRENT_SPLITS

\* handle_packet: the check of the concurrent limit before inserting.
AtSplitLimit(h) == Cardinality(DOMAIN h.reassembly_map) >= MAX_CONCURRENT_SPLITS

\* SplitPacketHandler::handle_packet; now is what Instant::now() and elapsed()
\* read during the call.
handle_packet(h, packet, now) ==
    IF ~packet.is_split THEN [sh |-> h, ret |-> Err("InternalError")]
    ELSE IF ~IsSome(packet.split_id) \/ ~IsSome(packet.split_count)
            \/ ~IsSome(packet.split_index)
    THEN [sh |-> h, ret |-> Err("InvalidSplitPacket")]
    ELSE
    LET split_id == Unwrap(packet.split_id)
        split_count == Unwrap(packet.split_count)
        split_index == Unwrap(packet.split_index)
    IN  IF split_count = 0 \/ split_count > MAX_SPLIT_PARTS
        THEN [sh |-> h, ret |-> Err("InvalidSplitPacket")]
        ELSE IF split_index >= split_count
        THEN [sh |-> h, ret |-> Err("InvalidSplitPacket")]
        ELSE IF MapHas(h.reassembly_map, split_id)
        THEN LET existing == h.reassembly_map[split_id]
             IN  IF existing.expected_count /= split_count
                 THEN [ sh |-> [h EXCEPT !.reassembly_map = MapRemove(@, split_id)],
                        ret |-> Err("InvalidSplitPacket") ]
                 ELSE IF now - existing.first_part_time > SPLIT_PACKET_TIMEOUT
                 THEN [ sh |-> [h EXCEPT !.reassembly_map = MapRemove(@, split_id)],
                        ret |-> Ok(None) ]
                 ELSE StorePart(h, split_id, split_index, packet)
        ELSE IF AtSplitLimit(h)
        THEN [sh |-> h, ret |-> Err("TooManySplitPackets")]
        ELSE StorePart([h EXCEPT !.reassembly_map =
                            MapPut(@, split_id, NewReassembly(packet, split_count, now))],
                       split_id, split_index, packet)

\* SplitPacketHandler::cleanup_timeouts
cleanup_timeouts(h, now) ==
    [h EXCEPT !.reassembly_map =
        [id \in { k \in DOMAIN h.reassembly_map :
                    now - h.reassembly_map[k].first_part_time <= SPLIT_PACKET_TIMEOUT }
            |-> h.reassembly_map[id]]]

---------------------------------------------------------------------------
(* session.rs, the receive path                                            *)

\* RakNetSession::handle_encapsulated. payload is what the session hands
\* upstream (the debug! line that stands for the game packet dispatch).
handle_encapsulated(h, packet, now) ==
    IF packet.is_split
    THEN LET r == handle_packet(h, packet, now)
         IN  [ sh |-> r.sh,
               payload |-> IF r.ret.ok THEN r.ret.val ELSE None ]
    ELSE [sh |-> h, payload |-> Some(packet.buffer)]

\* The for loop of RakNetSession::handle_datagram over the returned packets.
\* st = [sh, payloads, split_seen]: split_seen lists the packets passed to the
\* split handler.
RECURSIVE HandleEncapsulatedAll(_, _, _)
HandleEncapsulatedAll(st, packets, now) ==
    IF packets = <<>> THEN st
    ELSE LET r == handle_encapsulated(st.sh, Head(packets), now)
         IN  HandleEncapsulatedAll(
                 [ sh |-> r.sh,
                   payloads |-> IF IsSome(r.payload)
                                THEN Append(st.payloads, Unwrap(r.payload))
                                ELSE st.payloads,
                   split_seen |-> IF Head(packets).is_split
                                  THEN Append(st.split_seen, Head(packets))
                                  ELSE st.split_seen ],
                 Tail(packets), now)

\* RakNetSession::handle_datagram
RakNetSession_handle_datagram(w, h, datagram, now) ==
    LET r == ReceiveWindow_handle_datagram(w, datagram)
        e == HandleEncapsulatedAll([sh |-> h, payloads |-> <<>>, split_seen |-> <<>>],
                                   IF IsSome(r.ret) THEN Unwrap(r.ret) ELSE <<>>, now)
    IN  [ rw |-> r.rw, sh |-> e.sh, accepted |-> r.accepted,
          payloads |-> e.payloads, split_seen |-> e.split_seen ]

---------------------------------------------------------------------------
(* reliability/send_window.rs                                              *)

\* std::time::Duration: whole seconds and the nanoseconds below a second.
Duration(secs, nanos) == [secs |-> secs, nanos |-> nanos]

Duration_from_micros(us) == Duration(us \div 1000000, (us % 1000000) * 1000)

Duration_from_millis(ms) == Duration(ms \div 1000, (ms % 1000) * 1000000)

Duration_from_secs(secs) == Duration(secs, 0)

\* Duration::as_micros
Duration_as_micros(d) == d.secs * 1000000 + d.nanos \div 1000

\* a < b and a <= b on Durations.
DurationLess(a, b) == a.secs < b.secs \/ (a.secs = b.secs /\ a.nanos < b.nanos)

DurationLeq(a, b) == ~DurationLess(b, a)

DurationMin(a, b) == IF DurationLess(b, a) THEN b ELSE a

DurationMax(a, b) == IF DurationLess(a, b) THEN b ELSE a

\* Duration + Duration, Duration * 2, Duration * 4 and Duration / 2.
Duration_add(a, b) ==
    Duration(a.secs + b.secs + (a.nanos + b.nanos) \div 1000000000,
             (a.nanos + b.nanos) % 1000000000)

Duration_mul2(a) == Duration_add(a, a)

Duration_mul4(a) == Duration_mul2(Duration_mul2(a))

Duration_div2(a) ==
    Duration(a.secs \div 2, ((a.secs % 2) * 1000000000 + a.nanos) \div 2)

\* A Duration as whole microseconds and the nanoseconds below one, and back.
MicrosNanos(d) == [us |-> d.secs * 1000000 + d.nanos \div 1000, ns |-> d.nanos % 1000]

DurationOfMicrosNanos(us, ns) ==
    Duration((us + ns \div 1000) \div 1000000,
             ((us + ns \div 1000) % 1000000) * 1000 + (ns % 1000))

\* (weight * a + b) / den nanoseconds computed exactly, for weight + 1 = den:
\* the whole nanoseconds below it, and frac / den, the part of a nanosecond
\* above them. us and ns are the sum weight * a + b: whole microseconds, and
\* den times the nanoseconds that the division of us by den leaves over.
ExactQuotient(us, ns, den) ==
    [ us |-> us \div den + (ns \div den) \div 1000,
      ns |-> (ns \div den) % 1000,
      frac |-> ns % den ]

ExactSum(us, a, b, weight, den) ==
    ExactQuotient(us, (us % den) * 1000 + weight * a.ns + b.ns, den)

ExactMix(a, b, weight, den) == ExactSum(weight * a.us + b.us, a, b, weight, den)

\* hi - lo, and |a - b|, of spans given as microseconds and nanoseconds.
SubMicrosNanos(hi, lo) ==
    IF hi.ns >= lo.ns THEN [us |-> hi.us - lo.us, ns |-> hi.ns - lo.ns]
    ELSE [us |-> hi.us - lo.us - 1, ns |-> hi.ns + 1000 - lo.ns]

AbsDiffMicrosNanos(a, b) ==
    IF a.us > b.us \/ (a.us = b.us /\ a.ns >= b.ns)
    THEN SubMicrosNanos(a, b) ELSE SubMicrosNanos(b, a)

\* Natural numbers of any size, as the set of the positions of their binary
\* digits that are 1.
BitsOf(n) == { i \in 0 .. 30 : (n \div (2 ^ i)) % 2 = 1 }

BitsShl(S, k) == { i + k : i \in S }

BitsShr(S, k) == { i - k : i \in S }

BitsLen(S) == IF S = {} THEN 0 ELSE SetMax(S) + 1

\* A + B: a digit of the sum is the digits of A and B and the carry into it,
\* and a carry reaches position i from a position where both have a digit
\* when every position between has one.
BitsCarry(A, B, i) ==
    \E j \in A \cap B : j < i /\ \A k \in (j + 1) .. (i - 1) : k \in A \cup B

BitsAdd(A, B) ==
    IF A = {} THEN B ELSE IF B = {} THEN A
    ELSE { i \in Min(SetMin(A), SetMin(B)) .. (Max(SetMax(A), SetMax(B)) + 1) :
             ((i \in A) /= (i \in B)) /= BitsCarry(A, B, i) }

\* A < B, D being the positions where they differ.
BitsLessAt(D, B) == D /= {} /\ SetMax(D) \in B

BitsLess(A, B) == BitsLessAt((A \ B) \cup (B \ A), B)

\* A - B for A >= B: a borrow reaches position i from a position where only
\* B has a digit when no position between has a digit of A alone.
BitsBorrow(A, B, i) ==
    \E j \in B \ A : j < i /\ \A k \in (j + 1) .. (i - 1) : k \notin A \ B

BitsSub(A, B) ==
    IF B = {} THEN A
    ELSE { i \in Min(SetMin(A), SetMin(B)) .. SetMax(A) :
             ((i \in A) /= (i \in B)) /= BitsBorrow(A, B, i) }

\* S * n for a natural number n below 2^31: the multiples of S by the binary
\* digits of n from position k on.
RECURSIVE BitsMulFrom(_, _, _)
BitsMulFrom(S, n, k) ==
    IF k > 30 THEN {}
    ELSE IF (n \div (2 ^ k)) % 2 = 1
    THEN BitsAdd(BitsShl(S, k), BitsMulFrom(S, n, k + 1))
    ELSE BitsMulFrom(S, n, k + 1)

BitsMul(S, n) == BitsMulFrom(S, n, 0)

\* The grid of the f64 values: a value is held as the natural number of its
\* multiples of 2^-F64Grid. Every f64 that the computation meets is at least
\* 2^-30 or 0, so its 53 digits lie on this grid, also after a division by 8.
F64Grid == 89

\* Rounding to the 53 significant binary digits of an f64, to nearest, ties to
\* even: the digits of S below position p are cut; sticky tells that the
\* exact value lies above S by less than one unit.
F64RoundAt(S, sticky, p) ==
    IF (p - 1) \in S /\ (sticky \/ (\E i \in S : i < p - 1) \/ p \in S)
    THEN BitsAdd({ i \in S : i >= p }, {p})
    ELSE { i \in S : i >= p }

F64Round(S, sticky) ==
    IF BitsLen(S) <= 53 THEN S ELSE F64RoundAt(S, sticky, BitsLen(S) - 53)

\* rem / 5^9 ten binary digits at a time: bits, and the digits of the
\* quotient from position low + 9 down to 0, and whether a remainder is left.
RECURSIVE NanosQuotient(_, _, _)
NanosQuotient(rem, low, bits) ==
    IF low < 0 THEN [bits |-> bits, inexact |-> rem /= 0]
    ELSE NanosQuotient((rem * 1024) % 1953125, low - 10,
                       bits \cup BitsShl(BitsOf((rem * 1024) \div 1953125), low))

\* (secs as f64) + frac
F64AddSecs(secs, frac) ==
    IF secs = 0 THEN frac
    ELSE F64Round(BitsAdd(BitsShl(BitsOf(secs), F64Grid), frac), FALSE)

F64OfQuotient(q) == F64Round(q.bits, q.inexact)

\* Duration::as_secs_f64: (secs as f64) + (nanos as f64) / 1e9, where
\* nanos / 10^9 = (nanos / 5^9) / 2^9.
Duration_as_secs_f64(d) ==
    F64AddSecs(d.secs,
               F64OfQuotient(NanosQuotient(d.nanos % 1953125, F64Grid - 19,
                                 BitsShl(BitsOf(d.nanos \div 1953125), F64Grid - 9))))

\* (1.0 - 1/den) * x + (1/den) * y in f64, for den = 2^shift (a power of two:
\* the second product is exact).
F64MixShift(x, y, den, shift) ==
    F64Round(BitsAdd(F64Round(BitsShr(BitsMul(x, den - 1), shift), FALSE),
                     BitsShr(y, shift)),
             FALSE)

F64Mix(x, y, den) == F64MixShift(x, y, den, IF den = 8 THEN 3 ELSE 2)

\* (x - y).abs() in f64.
F64AbsDiff(x, y) ==
    F64Round(IF BitsLess(x, y) THEN BitsSub(y, x) ELSE BitsSub(x, y), FALSE)

\* value > half, or value = half and the nanosecond below is odd.
RoundsUp(half, value, odd) == BitsLess(half, value) \/ (half = value /\ odd)

\* Duration::from_secs_f64 for an f64 x that lies within a fraction of a
\* nanosecond of floor + 1/2 nanoseconds: the nearest nanosecond, ties to
\* even. 2 * 10^9 * x is compared with 2 * floor + 1.
Duration_from_secs_f64(x, floor) ==
    DurationOfMicrosNanos(
        floor.us,
        floor.ns
        + (IF RoundsUp(BitsShl(BitsAdd(BitsMul(BitsOf(floor.us), 2000),
                                       BitsOf(2 * floor.ns + 1)),
                               F64Grid),
                       BitsMul(x, 2000000000),
                       floor.ns % 2 = 1)
           THEN 1 ELSE 0))

\* Duration::from_secs_f64 of an f64 whose computation in exact arithmetic
\* gives exact, a value that is not half way between two nanoseconds: the
\* rounding errors of f64 are far below the 1/8 nanosecond that lies between
\* such a value and the half, so the nearest nanosecond is that of exact.
NearestNanos(exact, den) ==
    DurationOfMicrosNanos(exact.us,
                          exact.ns + (IF 2 * exact.frac > den THEN 1 ELSE 0))

RTT_ALPHA_DEN == 8

RTT_BETA_DEN == 4

\* update_rto, the else branch: the new srtt. exact is
\* (1 - RTT_ALPHA) * srtt + RTT_ALPHA * rtt without rounding.
SmoothedRttFrom(srtt, rtt, exact) ==
    IF 2 * exact.frac = RTT_ALPHA_DEN
    THEN Duration_from_secs_f64(
             F64Mix(Duration_as_secs_f64(srtt), Duration_as_secs_f64(rtt), RTT_ALPHA_DEN),
             exact)
    ELSE NearestNanos(exact, RTT_ALPHA_DEN)

SmoothedRtt(srtt, rtt) ==
    SmoothedRttFrom(srtt, rtt,
        ExactMix(MicrosNanos(srtt), MicrosNanos(rtt), RTT_ALPHA_DEN - 1, RTT_ALPHA_DEN))

\* update_rto, the else branch: the new rtt_var. exact is
\* (1 - RTT_BETA) * rtt_var + RTT_BETA * |srtt - rtt| without rounding.
SmoothedVarFrom(srtt, rtt_var, rtt, exact) ==
    IF 2 * exact.frac = RTT_BETA_DEN
    THEN Duration_from_secs_f64(
             F64Mix(Duration_as_secs_f64(rtt_var),
                    F64AbsDiff(Duration_as_secs_f64(srtt), Duration_as_secs_f64(rtt)),
                    RTT_BETA_DEN),
             exact)
    ELSE NearestNanos(exact, RTT_BETA_DEN)

SmoothedVar(srtt, rtt_var, rtt) ==
    SmoothedVarFrom(srtt, rtt_var, rtt,
        ExactMix(MicrosNanos(rtt_var),
                 AbsDiffMicrosNanos(MicrosNanos(srtt), MicrosNanos(rtt)),
                 RTT_BETA_DEN - 1, RTT_BETA_DEN))

MIN_RTO == Duration_from_millis(100)

MAX_RTO == Duration_from_secs(5)

INITIAL_RTO == Duration_from_millis(500)

INITIAL_CWND_PACKETS == 2

MIN_CWND_BYTES == 1400

\* A panic of the thread that runs the call.
Panicked == [ok |-> FALSE, err |-> "panic"]

\* usize::MAX, as the largest integer of the checker.
UsizeMax == 2147483647

saturating_add(a, b) == IF a > UsizeMax - b THEN UsizeMax ELSE a + b

saturating_sub(a, b) == IF b > a THEN 0 ELSE a - b

\* SendWindow::new
SendWindow_new(mtu, now) ==
    [ next_sequence_number |-> 0,
      next_message_index |-> 0,
      next_order_indices |-> EmptyMap,
      packet_queue |-> <<>>,
      pending_datagrams |-> EmptyMap,
      resend_queue |-> {},
      srtt |-> None,
      rtt_var |-> None,
      rto |-> INITIAL_RTO,
      mtu |-> mtu,
      cwnd |-> Max(INITIAL_CWND_PACKETS * mtu, MIN_CWND_BYTES),
      ssthresh |-> UsizeMax,
      bytes_in_flight |-> 0,
      ack_trackers |-> EmptyMap,
      last_ack_time |-> now,
      congestion_hold |-> None ]

\* SendWindow::queue_packet
queue_packet(w, buffer, reliability, channel) ==
    LET mi == IF is_reliable(reliability) THEN Some(w.next_message_index) ELSE None
        w1 == IF is_reliable(reliability)
              THEN [w EXCEPT !.next_message_index = wrapping_add1(@)]
              ELSE w
        ch == IF IsSome(channel) THEN Unwrap(channel) ELSE 0
        idx == IF MapHas(w1.next_order_indices, ch) THEN w1.next_order_indices[ch] ELSE 0
        w2 == IF needs_ordering_info(reliability)
              THEN [w1 EXCEPT !.next_order_indices =
                        MapPut(@, ch, IF is_ordered(reliability)
                                      THEN wrapping_add1(idx) ELSE idx)]
              ELSE w1
        packet == EncapsulatedPacket(
                      reliability, FALSE, mi, None,
                      IF needs_ordering_info(reliability) THEN Some(idx) ELSE None,
                      IF needs_ordering_info(reliability) THEN Some(ch) ELSE None,
                      None, None, None, buffer, None)
    IN  [ sw |-> [w2 EXCEPT !.packet_queue = Append(@, packet)],
          ret |-> mi ]

\* SendWindow::assign_ack_id: the last packet of the queue with the message
\* index given takes the ack id, and a tracker without sequence numbers is
\* made for the id unless there is one. An AckTracker is the set of its
\* sequence_numbers.
assign_ack_id(w, message_index, ack_id) ==
    LET found == { i \in DOMAIN w.packet_queue :
                       w.packet_queue[i].message_index = Some(message_index) }
    IN  IF found = {} THEN w
        ELSE [w EXCEPT !.packet_queue[SetMax(found)].ack_id = Some(ack_id),
                       !.ack_trackers = IF MapHas(@, ack_id) THEN @
                                        ELSE MapPut(@, ack_id, {})]

\* get_next_datagram: the tracker of the packet's ack id, if there is one,
\* takes the sequence number of the datagram.
TrackSequence(trackers, packet, seq) ==
    IF IsSome(packet.ack_id) /\ MapHas(trackers, Unwrap(packet.ack_id))
    THEN [trackers EXCEPT ![Unwrap(packet.ack_id)] = @ \cup {seq}]
    ELSE trackers

\* The build loop without the congestion window check: what the bound of
\* the bytes a new datagram may add rests on.
RECURSIVE BuildLoopNoCwnd(_, _, _)
BuildLoopNoCwnd(w, seq, st) ==
    IF st.queue = <<>> THEN st
    ELSE LET packet == Head(st.queue)
             packet_size == calculate_size(packet)
         IN  IF st.current_size + packet_size > w.mtu THEN st
             ELSE BuildLoopNoCwnd(w, seq,
                      [ queue |-> Tail(st.queue),
                        packets |-> Append(st.packets, packet),
                        current_size |-> st.current_size + packet_size,
                        has_critical_packet |->
                            st.has_critical_packet \/ is_reliable(packet.reliability),
                        ack_trackers |-> TrackSequence(st.ack_trackers, packet, seq) ])

\* The build loop without the MTU check: what the size bound of a datagram
\* rests on.
RECURSIVE BuildLoopNoMtu(_, _, _)
BuildLoopNoMtu(w, seq, st) ==
    IF st.queue = <<>> THEN st
    ELSE LET packet == Head(st.queue)
             packet_size == calculate_size(packet)
         IN  IF w.bytes_in_flight + (st.current_size + packet_size) > w.cwnd THEN st
             ELSE BuildLoopNoMtu(w, seq,
                      [ queue |-> Tail(st.queue),
                        packets |-> Append(st.packets, packet),
                        current_size |-> st.current_size + packet_size,
                        has_critical_packet |->
                            st.has_critical_packet \/ is_reliable(packet.reliability),
                        ack_trackers |-> TrackSequence(st.ack_trackers, packet, seq) ])

\* get_next_datagram: the while loop that moves packets from the queue into
\* the new datagram. st = [queue, packets, current_size, has_critical_packet,
\* ack_trackers].
RECURSIVE BuildLoop(_, _, _)
BuildLoop(w, seq, st) ==
    IF st.queue = <<>> THEN st
    ELSE LET packet == Head(st.queue)
             packet_size == calculate_size(packet)
         IN  IF st.current_size + packet_size > w.mtu THEN st
             ELSE IF w.bytes_in_flight + (st.current_size + packet_size) > w.cwnd THEN st
             ELSE BuildLoop(w, seq,
                      [ queue |-> Tail(st.queue),
                        packets |-> Append(st.packets, packet),
                        current_size |-> st.current_size + packet_size,
                        has_critical_packet |->
                            st.has_critical_packet \/ is_reliable(packet.reliability),
                        ack_trackers |-> TrackSequence(st.ack_trackers, packet, seq) ])

\* get_next_datagram, from "Build a new datagram from the packet queue" on.
BuildNewDatagram(w, now) ==
    IF w.packet_queue = <<>> THEN [sw |-> w, ret |-> None, kind |-> "none"]
    ELSE LET seq == w.next_sequence_number
             b == BuildLoop(w, seq,
                      [ queue |-> w.packet_queue, packets |-> <<>>,
                        current_size |-> 1 + 3, has_critical_packet |-> FALSE,
                        ack_trackers |-> w.ack_trackers ])
             datagram == [ Datagram_new(seq) EXCEPT
                               !.packets = b.packets,
                               !.send_time = Some(now),
                               !.size_for_congestion_control = Some(b.current_size) ]
         IN  IF b.packets = <<>>
             THEN [sw |-> w, ret |-> None, kind |-> "none"]
             ELSE [ sw |-> [w EXCEPT
                        !.packet_queue = b.queue,
                        !.ack_trackers = b.ack_trackers,
                        !.pending_datagrams =
                            MapPut(@, seq, [ datagram |-> datagram, send_time |-> now,
                                             has_critical |-> b.has_critical_packet ]),
                        !.bytes_in_flight = saturating_add(@, b.current_size),
                        !.next_sequence_number = wrapping_add1(@)],
                    ret |-> Some(datagram), kind |-> "new" ]

\* Option<usize>::unwrap_or(0) of a datagram's size_for_congestion_control.
CongestionSize(datagram) ==
    IF IsSome(datagram.size_for_congestion_control)
    THEN Unwrap(datagram.size_for_congestion_control) ELSE 0

\* The resend branch giving the retransmission a fresh sequence number: what
\* the reuse of the original sequence number rests on.
ResendOrBuildFreshSequence(w, now) ==
    IF w.resend_queue /= {}
    THEN LET seq_to_resend == SetMin(w.resend_queue)
             popped == [w EXCEPT !.resend_queue = @ \ {seq_to_resend}]
         IN  IF MapHas(w.pending_datagrams, seq_to_resend)
             THEN LET datagram == w.pending_datagrams[seq_to_resend].datagram
                  IN  IF w.bytes_in_flight + CongestionSize(datagram) <= w.cwnd
                      THEN [ sw |-> [popped EXCEPT
                                 !.pending_datagrams[seq_to_resend].send_time = now,
                                 !.next_sequence_number = wrapping_add1(@)],
                             ret |-> Some([datagram EXCEPT
                                        !.send_time = Some(now),
                                        !.sequence_number = w.next_sequence_number]),
                             kind |-> "resend" ]
                      ELSE [sw |-> w, ret |-> None, kind |-> "none"]
             ELSE BuildNewDatagram(popped, now)
    ELSE BuildNewDatagram(w, now)

\* The resend branch adding the retransmitted datagram's size to
\* bytes_in_flight once more: what counting every unacknowledged datagram once
\* rests on.
ResendOrBuildCountedAgain(w, now) ==
    IF w.resend_queue /= {}
    THEN LET seq_to_resend == SetMin(w.resend_queue)
             popped == [w EXCEPT !.resend_queue = @ \ {seq_to_resend}]
         IN  IF MapHas(w.pending_datagrams, seq_to_resend)
             THEN LET datagram == w.pending_datagrams[seq_to_resend].datagram
                  IN  IF w.bytes_in_flight + CongestionSize(datagram) <= w.cwnd
                      THEN [ sw |-> [popped EXCEPT
                                 !.pending_datagrams[seq_to_resend].send_time = now,
                                 !.bytes_in_flight =
                                     saturating_add(@, CongestionSize(datagram))],
                             ret |-> Some([datagram EXCEPT !.send_time = Some(now)]),
                             kind |-> "resend" ]
                      ELSE [sw |-> w, ret |-> None, kind |-> "none"]
             ELSE BuildNewDatagram(popped, now)
    ELSE BuildNewDatagram(w, now)

\* get_next_datagram, from "Process immediate resends" on.
ResendOrBuild(w, now) ==
    IF w.resend_queue /= {}
    THEN LET seq_to_resend == SetMin(w.resend_queue)
             popped == [w EXCEPT !.resend_queue = @ \ {seq_to_resend}]
         IN  IF MapHas(w.pending_datagrams, seq_to_resend)
             THEN LET datagram == w.pending_datagrams[seq_to_resend].datagram
                  IN  IF w.bytes_in_flight + CongestionSize(datagram) <= w.cwnd
                      THEN [ sw |-> [popped EXCEPT
                                 !.pending_datagrams[seq_to_resend].send_time = now],
                             ret |-> Some([datagram EXCEPT !.send_time = Some(now)]),
                             kind |-> "resend" ]
                      ELSE [sw |-> w, ret |-> None, kind |-> "none"]
             ELSE BuildNewDatagram(popped, now)
    ELSE BuildNewDatagram(w, now)

\* SendWindow::get_next_datagram; now is what Instant::now() returns during the
\* call. kind tells which branch produced the datagram.
get_next_datagram(w, now) ==
    IF w.bytes_in_flight < w.cwnd /\ IsSome(w.congestion_hold)
    THEN LET held == [Unwrap(w.congestion_hold) EXCEPT !.send_time = Some(now)]
         IN  [ sw |-> [w EXCEPT
                   !.congestion_hold = None,
                   !.pending_datagrams =
                       MapPut(@, held.sequence_number,
                              [ datagram |-> held, send_time |-> now,
                                has_critical |->
                                    \E i \in DOMAIN held.packets :
                                        is_reliable(held.packets[i].reliability) ]),
                   !.bytes_in_flight = saturating_add(@, CongestionSize(held))],
               ret |-> Some(held), kind |-> "held" ]
    ELSE ResendOrBuild(w, now)

\* update_rto: the retransmission timeout of the last lines.
ClampedRto(srtt, rtt_var) ==
    DurationMax(MIN_RTO, DurationMin(Duration_add(srtt, Duration_mul4(rtt_var)), MAX_RTO))

\* update_rto: the fields it writes.
Measured(w, srtt, rtt_var, rto) ==
    [w EXCEPT !.srtt = Some(srtt), !.rtt_var = Some(rtt_var), !.rto = rto]

MeasuredClamped(w, srtt, rtt_var) == Measured(w, srtt, rtt_var, ClampedRto(srtt, rtt_var))

MeasuredUnclamped(w, srtt, rtt_var) ==
    Measured(w, srtt, rtt_var, Duration_add(srtt, Duration_mul4(rtt_var)))

\* update_rto: the new srtt and rtt_var, of the first measurement and of the
\* later ones.
NewSrtt(w, rtt) ==
    IF ~IsSome(w.srtt) THEN rtt ELSE SmoothedRtt(Unwrap(w.srtt), rtt)

NewRttVar(w, rtt) ==
    IF ~IsSome(w.srtt) THEN Duration_div2(rtt)
    ELSE SmoothedVar(Unwrap(w.srtt), Unwrap(w.rtt_var), rtt)

\* update_rto without the clamp of the last line: what the bounds of the
\* timeout rest on.
update_rto_unclamped(w, rtt) ==
    CHOOSE out \in
        { MeasuredUnclamped(v[1], v[2], v[3]) :
              v \in { <<x, NewSrtt(x, r), NewRttVar(x, r)>> : x \in {w}, r \in {rtt} } } :
        TRUE

\* SendWindow::update_rto. The window, the sample and the two new values are
\* each computed once.
update_rto(w, rtt) ==
    CHOOSE out \in
        { MeasuredClamped(v[1], v[2], v[3]) :
              v \in { <<x, NewSrtt(x, r), NewRttVar(x, r)>> : x \in {w}, r \in {rtt} } } :
        TRUE

\* Instant::duration_since: the time from earlier to now, zero when earlier is
\* the later of the two.
duration_since(now, earlier) == Duration_from_micros(Max(0, now - earlier))

\* An acknowledgement that measures the round trip and leaves the datagram in
\* the unacknowledged map: what the effect of an ACK rests on.
AckOneKeepPending(st, seq, now) ==
    IF MapHas(st.sw.pending_datagrams, seq)
    THEN LET entry == st.sw.pending_datagrams[seq]
         IN  [ sw |-> update_rto(st.sw, duration_since(now, entry.send_time)),
               total_acked_bytes |->
                   st.total_acked_bytes + CongestionSize(entry.datagram),
               acked_seq_nums |-> st.acked_seq_nums \cup {seq} ]
    ELSE st

\* handle_ack: what one acknowledged sequence number does.
\* st = [sw, total_acked_bytes, acked_seq_nums].
AckOne(st, seq, now) ==
    IF MapHas(st.sw.pending_datagrams, seq)
    THEN LET entry == st.sw.pending_datagrams[seq]
             removed == [st.sw EXCEPT !.pending_datagrams = MapRemove(@, seq)]
         IN  [ sw |-> update_rto(removed, duration_since(now, entry.send_time)),
               total_acked_bytes |->
                   st.total_acked_bytes + CongestionSize(entry.datagram),
               acked_seq_nums |-> st.acked_seq_nums \cup {seq} ]
    ELSE st

RECURSIVE AckSeqs(_, _, _)
AckSeqs(st, seqs, now) ==
    IF seqs = <<>> THEN st ELSE AckSeqs(AckOne(st, Head(seqs), now), Tail(seqs), now)

\* handle_ack: the for loop over the records. A Range record acknowledges the
\* pending keys within it, in ascending order.
RECURSIVE AckRecords(_, _, _)
AckRecords(st, records, now) ==
    IF records = <<>> THEN st
    ELSE LET record == Head(records)
             st1 == IF record.kind = "Single"
                    THEN AckOne(st, record.start, now)
                    ELSE AckSeqs(st,
                             SortedSeq({ k \in DOMAIN st.sw.pending_datagrams :
                                           record.start <= k /\ k <= record.end }),
                             now)
         IN  AckRecords(st1, Tail(records), now)

\* handle_ack: BTreeMap::range panics on a range whose start is above its end,
\* unless the map never held an entry (it has no root then, and range returns
\* the empty iterator). Every datagram that enters pending_datagrams has
\* advanced next_sequence_number.
RangePanics(w, records) ==
    /\ w.next_sequence_number > 0 \/ DOMAIN w.pending_datagrams /= {}
    /\ \E i \in DOMAIN records :
           records[i].kind = "Range" /\ records[i].start > records[i].end

\* handle_ack: "Process ACK trackers".
UpdateAckTrackers(trackers, acked) ==
    [ id \in { k \in DOMAIN trackers : ~(trackers[k] \subseteq acked) }
        |-> trackers[id] \ acked ]

\* The congestion window growing by one MTU in slow start as in avoidance:
\* what the growth by the acknowledged bytes rests on.
GrowCwndAlwaysMtu(w, total_acked_bytes) == saturating_add(w.cwnd, w.mtu)

\* handle_ack: the congestion window after total_acked_bytes > 0 were
\* acknowledged.
GrowCwnd(w, total_acked_bytes) ==
    IF w.cwnd < w.ssthresh
    THEN saturating_add(w.cwnd, total_acked_bytes)
    ELSE saturating_add(w.cwnd, w.mtu)

\* handle_ack: the block under "if total_acked_bytes > 0".
\* st = [sw, total_acked_bytes, acked_seq_nums] as the loop over the records
\* left it.
AckApplied(st) ==
    [st.sw EXCEPT
         !.bytes_in_flight = saturating_sub(@, st.total_acked_bytes),
         !.cwnd = GrowCwnd(st.sw, st.total_acked_bytes),
         !.ack_trackers = UpdateAckTrackers(@, st.acked_seq_nums)]

\* handle_ack: what follows the loop over the records.
AckFinished(st, now) ==
    [(IF st.total_acked_bytes > 0 THEN AckApplied(st) ELSE st.sw)
         EXCEPT !.last_ack_time = now]

AckFinishedUnguarded(st, now) == [AckApplied(st) EXCEPT !.last_ack_time = now]

\* handle_ack without the test total_acked_bytes > 0: what the frame of an
\* ACK that acknowledges nothing rests on.
handle_ack_unguarded(w, records, now) ==
    IF RangePanics(w, records) THEN Panicked
    ELSE AckFinishedUnguarded(
             AckRecords([sw |-> w, total_acked_bytes |-> 0, acked_seq_nums |-> {}],
                        records, now),
             now)

\* SendWindow::handle_ack
handle_ack(w, records, now) ==
    IF RangePanics(w, records) THEN Panicked
    ELSE AckFinished(
             AckRecords([sw |-> w, total_acked_bytes |-> 0, acked_seq_nums |-> {}],
                        records, now),
             now)

\* handle_nack: the sequence numbers the records name, in the order the loops
\* visit them.
NackedSeqs(w, records) ==
    UNION { { seq \in records[i].start .. records[i].end :
                  MapHas(w.pending_datagrams, seq) /\ seq \notin w.resend_queue }
            : i \in DOMAIN records }

\* handle_nack with the window cut on every NACK, whether it marked a
\* sequence or not: what the frame of a NACK without effect rests on.
handle_nack_always_cut(w, records) ==
    [w EXCEPT !.resend_queue = @ \cup NackedSeqs(w, records),
              !.ssthresh = Max(w.cwnd \div 2, MIN_CWND_BYTES),
              !.cwnd = Max(w.cwnd \div 2, MIN_CWND_BYTES)]

\* SendWindow::handle_nack
handle_nack(w, records) ==
    LET marked == NackedSeqs(w, records)
        w1 == [w EXCEPT !.resend_queue = @ \cup marked]
    IN  IF marked /= {}
        THEN [w1 EXCEPT !.ssthresh = Max(w.cwnd \div 2, MIN_CWND_BYTES),
                        !.cwnd = Max(w.cwnd \div 2, MIN_CWND_BYTES)]
        ELSE w1

\* tick: the sequence numbers whose retransmission timeout expired.
TimedOut(w, now) ==
    { seq \in DOMAIN w.pending_datagrams :
        /\ DurationLess(w.rto, duration_since(now, w.pending_datagrams[seq].send_time))
        /\ w.pending_datagrams[seq].has_critical
        /\ seq \notin w.resend_queue }

\* SendWindow::tick
SendWindow_tick(w, now) ==
    LET retransmit_timeout == TimedOut(w, now)
    IN  IF retransmit_timeout /= {}
        THEN [w EXCEPT !.rto = DurationMin(Duration_mul2(w.rto), MAX_RTO),
                       !.ssthresh = Max(w.cwnd \div 2, MIN_CWND_BYTES),
                       !.cwnd = MIN_CWND_BYTES,
                       !.resend_queue = @ \cup retransmit_timeout]
        ELSE w

---------------------------------------------------------------------------
(* protocol/datagram.rs, encoding                                          *)

U16_MAX == 65535

\* EncapsulatedPacket::encode: Ok with the number of bytes written, or Err.
EncapsulatedPacket_encode(p) ==
    IF BytesLen(p.buffer) * 8 > U16_MAX THEN Err("InvalidData")
    ELSE IF is_reliable(p.reliability) /\ ~IsSome(p.message_index)
    THEN Err("InvalidData")
    ELSE IF is_sequenced(p.reliability) /\ ~IsSome(p.sequence_index)
    THEN Err("InvalidData")
    ELSE IF (is_ordered(p.reliability) \/ is_sequenced(p.reliability))
            /\ (~IsSome(p.order_index) \/ ~IsSome(p.order_channel))
    THEN Err("InvalidData")
    ELSE IF p.is_split /\ (~IsSome(p.split_count) \/ ~IsSome(p.split_id)
                           \/ ~IsSome(p.split_index))
    THEN Err("InvalidData")
    ELSE Ok(1 + 2
            + (IF is_reliable(p.reliability) THEN 3 ELSE 0)
            + (IF is_sequenced(p.reliability) THEN 3 ELSE 0)
            + (IF is_ordered(p.reliability) \/ is_sequenced(p.reliability)
               THEN 3 + 1 ELSE 0)
            + (IF p.is_split THEN 4 + 2 + 4 ELSE 0)
            + BytesLen(p.buffer))

\* Datagram::encode: Ok with the number of bytes written, or the first Err.
RECURSIVE EncodePackets(_, _)
EncodePackets(ps, written) ==
    IF ps = <<>> THEN Ok(written)
    ELSE LET r == EncapsulatedPacket_encode(Head(ps))
         IN  IF r.ok THEN EncodePackets(Tail(ps), written + r.val) ELSE r

Datagram_encode(d) == EncodePackets(d.packets, 1 + 3)

---------------------------------------------------------------------------
(* session.rs, tick                                                        *)

\* UdpSocket::send_to for the n-th write of a tick: it fails when the
\* environment makes the write numbered fail_at fail (0: none fails).
SendRawOk(n, fail_at) == n /= fail_at

\* tick, step 3: the while loop that drains get_next_datagram.
\* st = [sw, writes, wire, ok]: writes counts the socket writes of this tick,
\* wire lists what was written. DrainStep is the body of the loop for g, what
\* get_next_datagram returned.
RECURSIVE DrainSendWindow(_, _, _)
DrainStep(st, g, now, fail_at) ==
    IF ~IsSome(g.ret) THEN [st EXCEPT !.sw = g.sw]
    ELSE LET datagram == Unwrap(g.ret)
             enc == Datagram_encode(datagram)
         IN  IF ~enc.ok
             THEN [st EXCEPT !.sw = g.sw, !.ok = FALSE]
             ELSE IF ~SendRawOk(st.writes + 1, fail_at)
             THEN [st EXCEPT !.sw = g.sw, !.writes = @ + 1, !.ok = FALSE]
             ELSE DrainSendWindow(
                      [ sw |-> g.sw, writes |-> st.writes + 1,
                        wire |-> Append(st.wire,
                                    [ kind |-> "datagram",
                                      sequence_number |-> datagram.sequence_number,
                                      packets |-> datagram.packets,
                                      bytes |-> enc.val,
                                      resend |-> g.kind = "resend" ]),
                        ok |-> TRUE ],
                      now, fail_at)

DrainSendWindow(st, now, fail_at) ==
    CHOOSE out \in { DrainStep(s, g, now, fail_at) :
                         s \in {st}, g \in {get_next_datagram(st.sw, now)} } : TRUE

\* RakNetSession::tick. ok is FALSE when the tick returned Err.
RakNetSession_tick(w_r, w_s, now, fail_at) ==
    LET a == create_ack_packet(w_r)
        aw == IF IsSome(a.ret) THEN 1 ELSE 0
    IN  IF IsSome(a.ret) /\ ~SendRawOk(aw, fail_at)
        THEN [rw |-> a.rw, sw |-> w_s, wire |-> <<>>, ok |-> FALSE]
        ELSE
        LET wire1 == IF IsSome(a.ret)
                     THEN <<[kind |-> "ack", records |-> Unwrap(a.ret).records]>>
                     ELSE <<>>
            n == create_nack_packet(a.rw)
            nw == IF IsSome(n.ret) THEN aw + 1 ELSE aw
        IN  IF IsSome(n.ret) /\ ~SendRawOk(nw, fail_at)
            THEN [rw |-> n.rw, sw |-> w_s, wire |-> wire1, ok |-> FALSE]
            ELSE
            LET wire2 == IF IsSome(n.ret)
                         THEN Append(wire1, [ kind |-> "nack",
                                              records |-> Unwrap(n.ret).records ])
                         ELSE wire1
            IN  CHOOSE out \in
                    { [rw |-> n.rw, sw |-> d.sw, wire |-> d.wire, ok |-> d.ok] :
                        d \in { DrainSendWindow(
                                    [ sw |-> SendWindow_tick(w_s, now), writes |-> nw,
                                      wire |-> wire2, ok |-> TRUE ],
                                    now, fail_at) } } : TRUE

---------------------------------------------------------------------------
(* session.rs, the state machine                                           *)

FLAG_VALID == 128

FLAG_ACK == 64

FLAG_NACK == 32

\* FLAG_VALID | FLAG_ACK and FLAG_VALID | FLAG_NACK: the bits are disjoint.
ACK_HEADER == FLAG_VALID + FLAG_ACK

NACK_HEADER == FLAG_VALID + FLAG_NACK

CONNECTION_REQUEST == 9

CONNECTION_REQUEST_ACCEPTED == 16

NEW_INCOMING_CONNECTION == 19

DISCONNECT_NOTIFICATION == 21

\* packet_id & FLAG_VALID != 0, for a byte.
HasFlagValid(packet_id) == (packet_id \div FLAG_VALID) % 2 = 1

\* Several byte strings one after the other.
RECURSIVE BytesJoin(_)
BytesJoin(parts) ==
    IF parts = <<>> THEN <<>> ELSE BytesConcat(Head(parts), BytesJoin(Tail(parts)))

\* protocol::write_address for an IPv4 address: the type byte, the four octets
\* inverted, the port in two bytes.
write_address_v4(o1, o2, o3, o4, port) ==
    BytesJoin(<< Fill(4, 1), Fill(255 - o1, 1), Fill(255 - o2, 1), Fill(255 - o3, 1),
                 Fill(255 - o4, 1), Fill(port \div 256, 1), Fill(port % 256, 1) >>)

\* An IPv4 socket address.
AddrV4(o1, o2, o3, o4, port) == [v |-> 4, octets |-> <<o1, o2, o3, o4>>, port |-> port]

\* An IPv6 socket address: the port, and the bytes of the flow information
\* (4, big-endian), of the address (16) and of the scope id (4, big-endian).
AddrV6(ip, port, flowinfo, scope_id) ==
    [v |-> 6, port |-> port, flowinfo |-> flowinfo, ip |-> ip, scope_id |-> scope_id]

\* protocol::write_address. An IPv6 address is written as the type byte, the
\* family 23 in little-endian, the port, the flow information, the 16 bytes
\* of the address and the scope id.
write_address(addr) ==
    IF addr.v = 4
    THEN write_address_v4(addr.octets[1], addr.octets[2], addr.octets[3], addr.octets[4],
                          addr.port)
    ELSE BytesJoin(<< Fill(6, 1), Fill(23, 1), Fill(0, 1),
                      Fill(addr.port \div 256, 1), Fill(addr.port % 256, 1),
                      addr.flowinfo, addr.ip, addr.scope_id >>)

\* The for loop of handle_connection_request that writes n dummy addresses,
\* each 0.0.0.0:0.
RECURSIVE WriteDummyAddresses(_)
WriteDummyAddresses(n) ==
    IF n = 0 THEN <<>>
    ELSE BytesConcat(write_address(AddrV4(0, 0, 0, 0, 0)), WriteDummyAddresses(n - 1))

\* handle_connection_request: what the writer holds when it is frozen, for
\* the session of the remote address given. The two times are written as 0:
\* the request time is the literal 0, and the current time is the age in
\* milliseconds of an Instant taken in place.
ConnectionRequestAcceptedPayload(address) ==
    BytesJoin(<< Fill(CONNECTION_REQUEST_ACCEPTED, 1), write_address(address), Fill(0, 2),
                 WriteDummyAddresses(10), Fill(0, 8), Fill(0, 8) >>)

\* RakNetSession::new. The session is the record of the remote address, its
\* state, last_activity and its three handlers.
RakNetSession_new(address, mtu, now) ==
    [ address |-> address, state |-> "Connecting", last_activity |-> now,
      sw |-> SendWindow_new(mtu, now), rw |-> ReceiveWindow_new,
      sh |-> SplitPacketHandler_new ]

\* The fields of a session that are not its three handlers.
SessFields(s) ==
    [address |-> s.address, state |-> s.state, last_activity |-> s.last_activity]

\* The remote address of the session, where a specification follows one
\* session.
PeerAddress == AddrV4(127, 0, 0, 1, 19132)

\* RakNetSession::is_connected
is_connected(s) == s.state = "Connected"

\* RakNetSession::send_internal_packet
send_internal_packet(s, payload, reliability) ==
    [s EXCEPT !.sw = queue_packet(@, payload, reliability, Some(0)).sw]

\* RakNetSession::send_packet
send_packet(s, payload, reliability, channel) ==
    IF ~is_connected(s) THEN s
    ELSE [s EXCEPT !.sw = queue_packet(@, payload, reliability, Some(channel)).sw]

\* RakNetSession::handle_connection_request
handle_connection_request(s) ==
    IF s.state = "Connecting"
    THEN [ send_internal_packet(s, ConnectionRequestAcceptedPayload(s.address),
                                "ReliableOrdered")
               EXCEPT !.state = "Handshaking" ]
    ELSE s

\* RakNetSession::handle_post_handshake_connection
handle_post_handshake_connection(s) ==
    IF s.state = "Handshaking" THEN [s EXCEPT !.state = "Connected"] ELSE s

\* RakNetSession::handle_disconnect_notification
handle_disconnect_notification(s) == [s EXCEPT !.state = "Disconnected"]

\* RakNetSession::handle_ack_nack. data.acknack is what AckNack::decode
\* returns for the bytes: Ok(records) or Err.
handle_ack_nack(s, data, now) ==
    IF ~data.acknack.ok THEN s
    ELSE IF data.id = NACK_HEADER
    THEN [s EXCEPT !.sw = handle_nack(@, data.acknack.val)]
    ELSE [s EXCEPT !.sw = handle_ack(@, data.acknack.val, now)]

\* The match on packet_id of handle_incoming, for a session that is not
\* connected.
HandleConnectionPhase(s, packet_id) ==
    IF packet_id = CONNECTION_REQUEST /\ s.state = "Connecting"
    THEN handle_connection_request(s)
    ELSE IF packet_id = NEW_INCOMING_CONNECTION /\ s.state = "Handshaking"
    THEN handle_post_handshake_connection(s)
    ELSE IF packet_id = DISCONNECT_NOTIFICATION
    THEN handle_disconnect_notification(s)
    ELSE s

\* RakNetSession::handle_incoming. data stands for the bytes received:
\* data.empty tells that there are none, data.id is the first byte,
\* data.acknack what AckNack::decode makes of them and data.datagram what
\* Datagram::decode makes of them. payloads is what the session hands upstream.
handle_incoming(s, data, now) ==
    LET s1 == [s EXCEPT !.last_activity = now]
    IN  IF data.empty THEN [s |-> s1, payloads |-> <<>>]
        ELSE IF data.id = ACK_HEADER \/ data.id = NACK_HEADER
        THEN [s |-> handle_ack_nack(s1, data, now), payloads |-> <<>>]
        ELSE IF HasFlagValid(data.id)
        THEN IF data.datagram.ok
             THEN LET r == RakNetSession_handle_datagram(s1.rw, s1.sh,
                                                         data.datagram.val, now)
                  IN  [ s |-> [s1 EXCEPT !.rw = r.rw, !.sh = r.sh],
                        payloads |-> r.payloads ]
             ELSE [s |-> s1, payloads |-> <<>>]
        ELSE IF is_connected(s1) THEN [s |-> s1, payloads |-> <<>>]
        ELSE [s |-> HandleConnectionPhase(s1, data.id), payloads |-> <<>>]

---------------------------------------------------------------------------
(* The state after construction                                            *)

\* The MTU the session was created with.
Mtu == 1400

NoCall == [op |-> "new"]

\* Nothing in flight on the network, and a peer that has received nothing.
NoEnv == [ to_peer |-> <<>>, to_server |-> <<>>, got |-> {}, held |-> EmptyMap,
           next |-> 0, delivered |-> <<>>, sent |-> <<>>, drops |-> 0 ]

Channels == {0, 1}

HistInit ==
    [ accepted |-> {},                         \* sequences the receive window accepted
      delivered |-> [c \in Channels |-> <<>>], \* order indices returned, per channel
      pendingAck |-> {},                       \* accepted since the last ACK packet
      upstream |-> <<>>,                       \* payloads the session handed upstream
      splitDup |-> {},                         \* split ids whose latest tracker dropped a duplicate
      fragAccepted |-> {},                     \* fragment indices in accepted datagrams
      fragReached |-> {},                      \* fragment indices the reassembler saw
      queued |-> 0,                            \* calls of queue_packet
      firstSent |-> EmptyMap,                  \* sequence |-> packets of the new datagram
      acked |-> {},                            \* sent sequences an ACK has named
      retrans |-> {},                          \* sequences returned as a retransmission
      written |-> {},                          \* sequences written to the socket
      ackSent |-> {},                          \* sequences written to the socket in an ACK
      sequenced |-> [c \in Channels |-> {}],   \* sequence indices returned, per channel
      advances |-> 0,                          \* steps of the clock
      assigned |-> 0,                          \* calls of assign_ack_id
      ticks |-> 0 ]                            \* parity of the number of session ticks

Init ==
    /\ rw = ReceiveWindow_new
    /\ sh = SplitPacketHandler_new
    /\ sw = SendWindow_new(Mtu, 0)
    /\ sess = SessFields(RakNetSession_new(PeerAddress, Mtu, 0))
    /\ env = NoEnv
    /\ clock = 0
    /\ last = NoCall
    /\ hist = HistInit

\* Remote addresses a session is made for: two IPv4 addresses and the IPv6
\* loopback [::1]:19132.
SessionAddrs ==
    { PeerAddress, AddrV4(10, 0, 0, 1, 19133),
      AddrV6(BytesConcat(Fill(0, 15), Fill(1, 1)), 19132, Fill(0, 4), Fill(0, 4)) }

\* The state after RakNetSession::new for one of the remote addresses given,
\* before a call on one of the inputs given.
InitSession(addrs, inputs) ==
    /\ rw = ReceiveWindow_new
    /\ sh = SplitPacketHandler_new
    /\ sw = SendWindow_new(Mtu, 0)
    /\ \E a \in addrs : sess = SessFields(RakNetSession_new(a, Mtu, 0))
    /\ env = NoEnv
    /\ clock = 0
    /\ hist = HistInit
    /\ \E i \in inputs : last = i

---------------------------------------------------------------------------
(* The receive window on its own: datagrams arrive in any order, any       *)
(* number of times; ACK and NACK packets are drawn at any moment.          *)

MaxSeq == 3

\* A sequence number beyond the window of every state the small ones reach.
FarSeq == MaxSeq + MAX_RECV_WINDOW_SIZE + 2

RecvSeqs == (0 .. MaxSeq) \cup {FarSeq}

MaxOrder == 1

PlainPacket(b) ==
    EncapsulatedPacket("Unreliable", FALSE, None, None, None, None,
                       None, None, None, Fill(b, 1), None)

OrderedPacket(ch, oi) ==
    EncapsulatedPacket("ReliableOrdered", FALSE, Some(oi), None, Some(oi), Some(ch),
                       None, None, None, Fill(oi + 1, 1), None)

SequencedPacket(ch, oi) ==
    EncapsulatedPacket("UnreliableSequenced", FALSE, None, Some(oi), Some(oi), Some(ch),
                       None, None, None, Fill(oi + 1, 2), None)

\* A packet that needs ordering information and lacks its channel.
NoChannelPacket ==
    EncapsulatedPacket("ReliableOrdered", FALSE, Some(0), None, Some(0), None,
                       None, None, None, Fill(0, 1), None)

RecvPool ==
    {PlainPacket(0), NoChannelPacket, SequencedPacket(0, 1), OrderedPacket(1, 0)}
    \cup {OrderedPacket(0, oi) : oi \in 0 .. MaxOrder}

RecvPacketLists ==
    {<<p>> : p \in RecvPool} \cup {<<PlainPacket(0), OrderedPacket(0, 1)>>}

\* The packets of a list that take no part in ordering.
RECURSIVE PlainOf(_)
PlainOf(packets) ==
    IF packets = <<>> THEN <<>>
    ELSE (IF needs_ordering_info(Head(packets).reliability) THEN <<>>
          ELSE <<Head(packets)>>) \o PlainOf(Tail(packets))

RecvDatagram(seq, packets) == [Datagram_new(seq) EXCEPT !.packets = packets]

\* The order indices of the packets of ready that went through the ordering
\* branch of channel c, in the order they were returned.
RECURSIVE OrderIndicesOf(_, _)
OrderIndicesOf(ready, c) ==
    IF ready = <<>> THEN <<>>
    ELSE LET p == Head(ready)
         IN  (IF needs_ordering_info(p.reliability) /\ p.order_channel = Some(c)
              THEN <<Unwrap(p.order_index)>> ELSE <<>>)
             \o OrderIndicesOf(Tail(ready), c)

ReadyOf(ret) == IF IsSome(ret) THEN Unwrap(ret) ELSE <<>>

RecvHandleDatagram ==
    \E seq \in RecvSeqs, packets \in RecvPacketLists :
        LET d == RecvDatagram(seq, packets)
            r == ReceiveWindow_handle_datagram(rw, d)
        IN  /\ rw' = r.rw
            /\ last' = [ op |-> "handle_datagram", seq |-> seq,
                         plain |-> PlainOf(packets), ret |-> r.ret,
                         accepted |-> r.accepted ]
            /\ hist' = [hist EXCEPT
                   !.accepted = IF r.accepted THEN @ \cup {seq} ELSE @,
                   !.pendingAck = IF r.accepted THEN @ \cup {seq} ELSE @,
                   !.delivered = [c \in Channels |->
                                     @[c] \o OrderIndicesOf(ReadyOf(r.ret), c)]]
            /\ UNCHANGED <<sess, env, sh, sw, clock>>

RecvCreateAck ==
    LET r == create_ack_packet(rw)
    IN  /\ rw' = r.rw
        /\ last' = [op |-> "create_ack_packet", ret |-> r.ret]
        /\ hist' = [hist EXCEPT !.pendingAck = {}]
        /\ UNCHANGED <<sess, env, sh, sw, clock>>

RecvCreateNack ==
    LET r == create_nack_packet(rw)
    IN  /\ rw' = r.rw
        /\ last' = [op |-> "create_nack_packet", ret |-> r.ret]
        /\ UNCHANGED <<sess, env, sh, sw, clock, hist>>

RecvNext == RecvHandleDatagram \/ RecvCreateAck \/ RecvCreateNack

SpecRecv == Init /\ [][RecvNext]_vars

---------------------------------------------------------------------------
(* Properties of the receive window                                        *)

NextOrderIndex(w, c) ==
    IF MapHas(w.next_order_indices, c) THEN w.next_order_indices[c] ELSE 0

\* C1: on every ordering channel the order indices of the packets returned
\* upstream are 0, 1, 2, ... in this order, without gap or repeat, up to the
\* channel's next expected index; so no packet whose index is below the next
\* expected index is ever returned.
C1_OrderedDelivery ==
    \A c \in Channels :
        /\ Len(hist.delivered[c]) = NextOrderIndex(rw, c)
        /\ \A i \in 1 .. Len(hist.delivered[c]) : hist.delivered[c][i] = i - 1

\* C1 witness: index 1 of channel 0 arrived before index 0 and was queued; the
\* call that brought index 0 returned both, in order.
C1_Witness ==
    /\ last.op = "handle_datagram"
    /\ OrderIndicesOf(ReadyOf(last.ret), 0) = <<0, 1>>
    /\ hist.delivered[0] = <<0, 1>>

IsGapFill(w, seq) ==
    /\ seq >= w.expected_sequence_number
    /\ seq \notin w.received_datagrams
    /\ w.received_datagrams /= {}
    /\ seq < SetMax(w.received_datagrams)

\* C3: every ACK packet lists exactly the sequences accepted since the last
\* one; and a missing sequence g below the highest sequence received, when it
\* arrives, is accepted, joins the ACK queue, leaves the NACK set, and the
\* expected sequence number moves past every contiguous entry.
C3_GapFill ==
    [][ /\ (last'.op = "create_ack_packet" /\ IsSome(last'.ret)) =>
               extract_sequence_numbers(Unwrap(last'.ret).records) = hist.pendingAck
        /\ (last'.op = "handle_datagram" /\ IsGapFill(rw, last'.seq)) =>
               /\ last'.accepted
               /\ \E i \in DOMAIN rw'.ack_queue : rw'.ack_queue[i] = last'.seq
               /\ last'.seq \notin rw'.nack_queue
               /\ rw'.expected_sequence_number > last'.seq ]_vars

\* C3, the part the code meets: an ACK packet lists exactly the sequences
\* accepted since the last one, and a NACK packet lists exactly the sequences
\* of the NACK set.
C3_AckNackContents ==
    [][ /\ (last'.op = "create_ack_packet" /\ IsSome(last'.ret)) =>
               extract_sequence_numbers(Unwrap(last'.ret).records) = hist.pendingAck
        /\ (last'.op = "create_nack_packet" /\ IsSome(last'.ret)) =>
               extract_sequence_numbers(Unwrap(last'.ret).records) = rw.nack_queue ]_vars

\* C3 witness: sequences 0, 1 and 3 were accepted, 2 is in the NACK set, and
\* sequence 2 then arrived and was not accepted.
C3_Witness ==
    /\ last.op = "handle_datagram"
    /\ last.seq = 2
    /\ ~last.accepted
    /\ hist.accepted = {0, 1, 3}
    /\ 2 \in rw.nack_queue

---------------------------------------------------------------------------
(* The split reassembler on its own: fragments of two split ids arrive in  *)
(* any order, any number of times, while time passes.                      *)

\* The number of fragments of the split messages.
SplitN == 3

SplitMaxTicks == 2

\* Two steps of the clock exceed SPLIT_PACKET_TIMEOUT, one does not.
SplitClockStep == (2 * SPLIT_PACKET_TIMEOUT) \div 3

SplitIds == {0, 1}

\* Fragment split_index of split_count of the message split_id: one byte, whose
\* value tells the index.
Fragment(split_id, split_count, split_index) ==
    EncapsulatedPacket("ReliableOrdered", TRUE, Some(0), None, Some(0), Some(0),
                       Some(split_count), Some(split_id), Some(split_index),
                       Fill(split_index + 1, 1), None)

\* The payload whose fragments Fragment(_, split_count, _) are.
OriginalPayload(split_count) == [i \in 1 .. split_count |-> [byte |-> i, n |-> 1]]

SplitPool ==
    { Fragment(id, SplitN, i) : id \in SplitIds, i \in 0 .. (SplitN - 1) }
    \cup { Fragment(0, SplitN - 1, 0),        \* another count for split id 0
           Fragment(1, SplitN, SplitN),       \* an index out of range
           PlainPacket(0) }                   \* not a split packet

SplitHandlePacket ==
    \E packet \in SplitPool :
        LET r == handle_packet(sh, packet, clock)
            id == IF IsSome(packet.split_id) THEN Unwrap(packet.split_id) ELSE 0
            dropped == /\ r.ret = Ok(None)
                       /\ r.sh = sh
                       /\ MapHas(sh.reassembly_map, id)
        IN  /\ sh' = r.sh
            /\ last' = [op |-> "handle_packet", packet |-> packet, ret |-> r.ret]
            /\ hist' = [hist EXCEPT
                   !.splitDup = IF dropped THEN @ \cup {id}
                                ELSE IF MapHas(sh.reassembly_map, id) THEN @
                                ELSE @ \ {id}]
            /\ UNCHANGED <<sess, env, rw, sw, clock>>

SplitCleanup ==
    /\ sh' = cleanup_timeouts(sh, clock)
    /\ last' = [op |-> "cleanup_timeouts"]
    /\ UNCHANGED <<sess, env, rw, sw, clock, hist>>

SplitAdvanceClock ==
    /\ clock < SplitMaxTicks * SplitClockStep
    /\ clock' = clock + SplitClockStep
    /\ last' = [op |-> "clock"]
    /\ UNCHANGED <<sess, env, rw, sh, sw, hist>>

SplitNext == SplitHandlePacket \/ SplitCleanup \/ SplitAdvanceClock

SpecSplit == Init /\ [][SplitNext]_vars

\* The fragment reaches the "store the part" step of handle_packet: it is well
\* formed, and its split id has no tracker or one of the same count that has
\* not timed out.
ReachesStore(h, packet, now) ==
    /\ packet.is_split
    /\ Unwrap(packet.split_index) < Unwrap(packet.split_count)
    /\ MapHas(h.reassembly_map, Unwrap(packet.split_id)) =>
           LET e == h.reassembly_map[Unwrap(packet.split_id)]
           IN  /\ e.expected_count = Unwrap(packet.split_count)
               /\ now - e.first_part_time <= SPLIT_PACKET_TIMEOUT

\* The indices (from 0) filled in the tracker of split_id; none without one.
FilledIndices(h, split_id) ==
    IF MapHas(h.reassembly_map, split_id)
    THEN { i - 1 : i \in { k \in DOMAIN h.reassembly_map[split_id].parts :
                             IsSome(h.reassembly_map[split_id].parts[k]) } }
    ELSE {}

\* C5: a fragment that reaches the store step returns a completed payload
\* exactly when it fills the last missing index of its split id; the payload
\* is the fragments in split_index order and the tracker is then removed; a
\* fragment whose index is already filled changes nothing and returns nothing.
C5_SplitCompletion ==
    [][ (last'.op = "handle_packet" /\ ReachesStore(sh, last'.packet, clock)) =>
            LET id == Unwrap(last'.packet.split_id)
                n == Unwrap(last'.packet.split_count)
                i == Unwrap(last'.packet.split_index)
                before == FilledIndices(sh, id)
            IN  IF i \in before
                THEN sh' = sh /\ last'.ret = Ok(None)
                ELSE IF before \cup {i} = 0 .. (n - 1)
                THEN /\ last'.ret = Ok(Some(OriginalPayload(n)))
                     /\ ~MapHas(sh'.reassembly_map, id)
                ELSE /\ last'.ret = Ok(None)
                     /\ FilledIndices(sh', id) = before \cup {i} ]_vars

\* C5 witness: the fragments of split id 0 arrived out of index order, index 0
\* last, with a duplicate dropped on the way, and the call returned the payload.
C5_Witness ==
    /\ last.op = "handle_packet"
    /\ last.packet = Fragment(0, SplitN, 0)
    /\ last.ret = Ok(Some(OriginalPayload(SplitN)))
    /\ 0 \in hist.splitDup
    /\ ~MapHas(sh.reassembly_map, 0)

---------------------------------------------------------------------------
(* The receive path of the session: datagrams that carry the fragments of  *)
(* one split message, or a plain packet, arrive in any order.              *)

SessPacketLists ==
    { <<Fragment(0, SplitN, i)>> : i \in 0 .. (SplitN - 1) }
    \cup { <<PlainPacket(0)>>, <<Fragment(0, SplitN, 1), Fragment(0, SplitN, 0)>> }

\* The split indices of the split packets of a list.
SplitIndicesOf(packets) ==
    { Unwrap(packets[i].split_index) : i \in { k \in DOMAIN packets : packets[k].is_split } }

SessHandleDatagram ==
    \E seq \in 0 .. MaxSeq, packets \in SessPacketLists :
        LET r == RakNetSession_handle_datagram(rw, sh, RecvDatagram(seq, packets), clock)
        IN  /\ rw' = r.rw
            /\ sh' = r.sh
            /\ last' = [ op |-> "session_handle_datagram", seq |-> seq,
                         accepted |-> r.accepted, payloads |-> r.payloads ]
            /\ hist' = [hist EXCEPT
                   !.accepted = IF r.accepted THEN @ \cup {seq} ELSE @,
                   !.fragAccepted = IF r.accepted THEN @ \cup SplitIndicesOf(packets)
                                    ELSE @,
                   !.fragReached = @ \cup SplitIndicesOf(r.split_seen),
                   !.upstream = @ \o r.payloads]
            /\ UNCHANGED <<sess, env, sw, clock>>

SessAdvanceClock ==
    /\ clock < SplitMaxTicks * SplitClockStep
    /\ clock' = clock + SplitClockStep
    /\ last' = [op |-> "clock"]
    /\ UNCHANGED <<sess, env, rw, sh, sw, hist>>

SessRecvNext == SessHandleDatagram \/ SessAdvanceClock

SpecSessionRecv == Init /\ [][SessRecvNext]_vars

\* How many elements of the sequence s equal x.
RECURSIVE CountOf(_, _)
CountOf(s, x) ==
    IF s = <<>> THEN 0
    ELSE (IF Head(s) = x THEN 1 ELSE 0) + CountOf(Tail(s), x)

\* C4: once the receive window has accepted datagrams that carry every
\* fragment of the split message, every fragment has reached the split
\* reassembler and the original payload was handed upstream exactly once.
C4_SplitThroughSession ==
    hist.fragAccepted = 0 .. (SplitN - 1) =>
        /\ hist.fragReached = 0 .. (SplitN - 1)
        /\ CountOf(hist.upstream, OriginalPayload(SplitN)) = 1

\* C4 witness: every fragment was carried by an accepted datagram, one
\* fragment only reached the reassembler, and no payload came out of it.
C4_Witness ==
    /\ hist.fragAccepted = 0 .. (SplitN - 1)
    /\ Cardinality(hist.fragReached) = 1
    /\ CountOf(hist.upstream, OriginalPayload(SplitN)) = 0
    /\ clock = 0

---------------------------------------------------------------------------
(* The send window on its own: packets are queued, datagrams drawn, ACK    *)
(* and NACK packets handled and the timer ticked in any order, while time  *)
(* passes.                                                                 *)

\* How many packets are queued in a run.
MaxPackets == 3

SendMaxTicks == 1

\* One step of the clock is more than INITIAL_RTO.
SendClockStep == 6 * Duration_as_micros(MIN_RTO)

\* Payload lengths: three small packets fill a datagram, two big ones do not
\* fit in one, and the long one fits in none.
SmallLen == (Mtu \div 3) - 20

BigLen == ((2 * Mtu) \div 3) - 20

LongLen == Mtu

SendInputs ==
    { [len |-> SmallLen, reliability |-> "ReliableOrdered"],
      [len |-> BigLen, reliability |-> "Unreliable"],
      [len |-> LongLen, reliability |-> "ReliableOrdered"] }

\* What an ACK names: the first datagram, or all of them.
AckInputs == { <<Single(0)>>, <<RangeRec(0, MaxPackets - 1)>> }

\* What a NACK names: the first datagram.
NackInputs == { <<Single(0)>> }

SendQueuePacket ==
    /\ hist.queued < MaxPackets
    /\ \E in \in SendInputs :
           LET r == queue_packet(sw, Fill(0, in.len), in.reliability, Some(0))
           IN  /\ sw' = r.sw
               /\ last' = [op |-> "queue_packet"]
               /\ hist' = [hist EXCEPT !.queued = @ + 1]
    /\ UNCHANGED <<sess, env, rw, sh, clock>>

\* The ack id a caller gives.
AckId == 5

MaxAssigns == 2

\* SendWindow::assign_ack_id for a message index queue_packet has returned,
\* or the next one, which no packet has yet.
SendAssignAckId ==
    /\ hist.assigned < MaxAssigns
    /\ \E message_index \in 0 .. sw.next_message_index :
           sw' = assign_ack_id(sw, message_index, AckId)
    /\ last' = [op |-> "assign_ack_id"]
    /\ hist' = [hist EXCEPT !.assigned = @ + 1]
    /\ UNCHANGED <<sess, env, rw, sh, clock>>

SendGetNextDatagram ==
    LET r == get_next_datagram(sw, clock)
        seq == Unwrap(r.ret).sequence_number
    IN  /\ sw' = r.sw
        /\ last' = [ op |-> "get_next_datagram", ret |-> r.ret, kind |-> r.kind,
                     skipped |-> /\ sw.resend_queue /= {}
                                 /\ ~MapHas(sw.pending_datagrams,
                                            SetMin(sw.resend_queue)) ]
        /\ hist' = [hist EXCEPT
               !.firstSent = IF r.kind = "new"
                             THEN MapPut(@, seq, Unwrap(r.ret).packets) ELSE @,
               !.retrans = IF r.kind = "resend" THEN @ \cup {seq} ELSE @]
        /\ UNCHANGED <<sess, env, rw, sh, clock>>

SendHandleAck ==
    \E records \in AckInputs :
        /\ sw' = handle_ack(sw, records, clock)
        /\ last' = [op |-> "handle_ack"]
        /\ hist' = [hist EXCEPT
               !.acked = @ \cup (extract_sequence_numbers(records)
                                 \cap DOMAIN hist.firstSent)]
        /\ UNCHANGED <<sess, env, rw, sh, clock>>

SendHandleNack ==
    \E records \in NackInputs :
        /\ sw' = handle_nack(sw, records)
        /\ last' = [op |-> "handle_nack"]
        /\ UNCHANGED <<sess, env, rw, sh, clock, hist>>

SendTick ==
    /\ sw' = SendWindow_tick(sw, clock)
    /\ last' = [op |-> "tick"]
    /\ UNCHANGED <<sess, env, rw, sh, clock, hist>>

SendAdvanceClock ==
    /\ clock < SendMaxTicks * SendClockStep
    /\ clock' = clock + SendClockStep
    /\ last' = [op |-> "clock"]
    /\ UNCHANGED <<sess, env, rw, sh, sw, hist>>

SendNext ==
    \/ SendQueuePacket
    \/ SendAssignAckId
    \/ SendGetNextDatagram
    \/ SendHandleAck
    \/ SendHandleNack
    \/ SendTick
    \/ SendAdvanceClock

SpecSend == Init /\ [][SendNext]_vars

---------------------------------------------------------------------------
(* Properties of the send window                                           *)

ReturnedDatagram == Unwrap(last.ret)

\* C6: a sequence number that an ACK has named after its datagram was sent is
\* not in the unacknowledged map, and no datagram that get_next_datagram
\* returns carries it, marked for retransmission before the ACK or not.
C6_AckedNeverReturned ==
    /\ hist.acked \cap DOMAIN sw.pending_datagrams = {}
    /\ (last.op = "get_next_datagram" /\ IsSome(last.ret)) =>
           ReturnedDatagram.sequence_number \notin hist.acked

\* C6 witness: get_next_datagram found at the head of the resend queue a
\* sequence that was acknowledged after being marked, skipped it, and returned
\* a new datagram.
C6_Witness ==
    /\ last.op = "get_next_datagram"
    /\ last.skipped
    /\ IsSome(last.ret)
    /\ hist.acked /= {}

\* C7: a datagram returned as a retransmission carries a sequence number that
\* was sent before, with the packets it was first sent with, and the call
\* leaves next_sequence_number as it was.
C7_RetransmissionKeepsSequence ==
    [][ (last'.op = "get_next_datagram" /\ last'.kind = "resend") =>
            LET d == Unwrap(last'.ret)
            IN  /\ MapHas(hist.firstSent, d.sequence_number)
                /\ d.packets = hist.firstSent[d.sequence_number]
                /\ sw'.next_sequence_number = sw.next_sequence_number ]_vars

\* C7 witness: sequence 0 was returned again after a later datagram was built.
C7_Witness ==
    /\ last.op = "get_next_datagram"
    /\ last.kind = "resend"
    /\ ReturnedDatagram.sequence_number = 0
    /\ sw.next_sequence_number >= 2

\* The bytes in flight of the datagrams that were retransmitted or are marked
\* for retransmission.
RECURSIVE SumCongestionSize(_, _)
SumCongestionSize(w, seqs) ==
    IF seqs = {} THEN 0
    ELSE LET s == SetMin(seqs)
         IN  CongestionSize(w.pending_datagrams[s].datagram)
             + SumCongestionSize(w, seqs \ {s})

RetransmittedBytes ==
    SumCongestionSize(sw, DOMAIN sw.pending_datagrams
                              \cap (sw.resend_queue \cup hist.retrans))

\* C9 as stated: bytes_in_flight, less the bytes of the datagrams retransmitted
\* or marked for retransmission, is at most the congestion window.
C9_InFlightWithinCwnd ==
    sw.bytes_in_flight - RetransmittedBytes <= sw.cwnd

\* C9 amended: bytes_in_flight is above the congestion window only after
\* handle_nack or tick lowered the window below bytes already in flight; no
\* call raises bytes_in_flight to a value above the window, and a
\* retransmission adds no bytes.
C9_ExcessOnlyByWindowCut ==
    [][ /\ sw'.bytes_in_flight > sw'.cwnd =>
               /\ sw'.bytes_in_flight <= sw.bytes_in_flight
               /\ sw.bytes_in_flight <= sw.cwnd =>
                      /\ sw'.cwnd < sw.cwnd
                      /\ last'.op \in {"handle_nack", "tick"}
        /\ (last'.op = "get_next_datagram" /\ last'.kind = "resend") =>
               sw'.bytes_in_flight = sw.bytes_in_flight ]_vars

\* C9 witness: a NACK halved the window while three datagrams were in flight;
\* the bytes of the two that are not marked exceed the window.
C9_Witness ==
    /\ last.op = "handle_nack"
    /\ sw.bytes_in_flight - RetransmittedBytes > sw.cwnd
    /\ Cardinality(DOMAIN sw.pending_datagrams) = 3

\* C10: every datagram get_next_datagram returns, new or retransmitted, has a
\* size (header and packets), as calculated and as encoded, of at most the MTU.
C10_DatagramWithinMtu ==
    (last.op = "get_next_datagram" /\ IsSome(last.ret)) =>
        /\ Datagram_calculate_size(ReturnedDatagram) <= sw.mtu
        /\ Datagram_encode(ReturnedDatagram).ok =>
               Datagram_encode(ReturnedDatagram).val <= sw.mtu

\* C10 witness: a datagram was returned and the packet left at the head of the
\* queue would have taken it past the MTU.
C10_Witness ==
    /\ last.op = "get_next_datagram"
    /\ IsSome(last.ret)
    /\ sw.packet_queue /= <<>>
    /\ Datagram_calculate_size(ReturnedDatagram)
           + calculate_size(Head(sw.packet_queue)) > sw.mtu
    /\ Datagram_calculate_size(ReturnedDatagram)
           + calculate_size(Head(sw.packet_queue)) <= sw.cwnd


\* The packet, framed alone in a datagram, fits the MTU.
FitsFramed(w, p) == (1 + 3) + calculate_size(p) <= w.mtu

\* C11: what a queue_packet call appends to the queue is either one unsplit
\* packet that fits the MTU when framed, or N > 1 fragments that share one
\* split id, carry split_count N and split_index 0 .. N-1 in order and each
\* fit the MTU when framed; so a payload too large for one datagram is queued
\* as fragments, and nothing that can never be sent enters the queue.
C11_OversizeIsSplit ==
    [][ last'.op = "queue_packet" =>
            LET added == SubSeq(sw'.packet_queue, Len(sw.packet_queue) + 1,
                                Len(sw'.packet_queue))
            IN  /\ \A i \in DOMAIN added : FitsFramed(sw', added[i])
                /\ \/ Len(added) = 1 /\ ~added[1].is_split
                   \/ /\ Len(added) > 1
                      /\ \A i \in DOMAIN added :
                             /\ added[i].is_split
                             /\ added[i].split_id = added[1].split_id
                             /\ added[i].split_count = Some(Len(added))
                             /\ added[i].split_index = Some(i - 1) ]_vars

\* C11 witness: a payload of MTU bytes was queued as one unsplit packet and a
\* small packet behind it; with nothing in flight and the whole congestion
\* window free, get_next_datagram returned nothing and left both queued.
C11_Witness ==
    /\ last.op = "get_next_datagram"
    /\ last.ret = None
    /\ sw.bytes_in_flight = 0
    /\ sw.resend_queue = {}
    /\ Len(sw.packet_queue) = 2
    /\ ~sw.packet_queue[1].is_split
    /\ ~FitsFramed(sw, sw.packet_queue[1])
    /\ FitsFramed(sw, sw.packet_queue[2])
    /\ (1 + 3) + calculate_size(sw.packet_queue[2]) <= sw.cwnd


\* The sequence numbers a step removed from the unacknowledged map.
NewlyAcked(w, w2) == DOMAIN w.pending_datagrams \ DOMAIN w2.pending_datagrams

\* C16 as stated: a handle_ack call that acknowledges at least one pending
\* datagram increases the congestion window by at least one MTU in slow start
\* (CWND < SSTHRESH), and in avoidance by a positive amount that is smaller
\* than the least increase of slow start, one MTU.
C16_SlowStartAtLeastMtu ==
    [][ (last'.op = "handle_ack" /\ NewlyAcked(sw, sw') /= {}) =>
            IF sw.cwnd < sw.ssthresh
            THEN sw'.cwnd - sw.cwnd >= sw.mtu
            ELSE /\ sw'.cwnd - sw.cwnd > 0
                 /\ sw'.cwnd - sw.cwnd < sw.mtu ]_vars

\* C16 amended: a handle_ack call that acknowledges at least one pending
\* datagram increases the congestion window by the bytes it acknowledged in
\* slow start, a positive amount of at most one MTU for each datagram
\* acknowledged, and by one MTU in avoidance; a call that acknowledges
\* nothing leaves the window as it was.
C16_AckGrowsCwnd ==
    [][ last'.op = "handle_ack" =>
            LET acked == NewlyAcked(sw, sw')
                bytes == SumCongestionSize(sw, acked)
            IN  IF acked = {} THEN sw'.cwnd = sw.cwnd
                ELSE IF sw.cwnd < sw.ssthresh
                THEN /\ sw'.cwnd = sw.cwnd + bytes
                     /\ bytes > 0
                     /\ bytes <= Cardinality(acked) * sw.mtu
                ELSE sw'.cwnd = sw.cwnd + sw.mtu ]_vars

\* C16 witness: no NACK or timeout has happened (SSTHRESH is as constructed),
\* so the window has only grown in slow start; an ACK has just made it grow,
\* and it is less than one MTU above its initial value.
C16_Witness ==
    /\ last.op = "handle_ack"
    /\ sw.ssthresh = UsizeMax
    /\ sw.cwnd > SendWindow_new(Mtu, 0).cwnd
    /\ sw.cwnd < SendWindow_new(Mtu, 0).cwnd + sw.mtu

---------------------------------------------------------------------------
(* The session and its socket: packets are queued for sending, datagrams   *)
(* arrive, the peer acknowledges what it received, and tick writes to a    *)
(* socket whose writes may fail.                                           *)

TickInputs ==
    { [len |-> SmallLen, reliability |-> "ReliableOrdered"],
      [len |-> BigLen, reliability |-> "Unreliable"],
      [len |-> SmallLen, reliability |-> "UnreliableSequenced"] }

\* Which socket write of a tick fails: none, the first or the second.
FailAts == {0, 1, 2}

\* The sequence numbers of the datagrams among what a tick wrote.
WrittenSeqs(wire) ==
    { wire[i].sequence_number : i \in { k \in DOMAIN wire : wire[k].kind = "datagram" } }

TickQueuePacket ==
    /\ hist.queued < MaxPackets
    /\ \E in \in TickInputs :
           LET r == queue_packet(sw, Fill(0, in.len), in.reliability, Some(0))
           IN  /\ sw' = r.sw
               /\ last' = [op |-> "queue_packet"]
               /\ hist' = [hist EXCEPT !.queued = @ + 1]
    /\ UNCHANGED <<sess, env, rw, sh, clock>>

\* A datagram of the peer arrives.
TickRecvDatagram ==
    \E seq \in {0} :
        LET r == RakNetSession_handle_datagram(
                     rw, sh, RecvDatagram(seq, <<PlainPacket(0)>>), clock)
        IN  /\ rw' = r.rw
            /\ sh' = r.sh
            /\ last' = [op |-> "session_handle_datagram"]
            /\ UNCHANGED <<sess, env, sw, clock, hist>>

\* The peer acknowledges one datagram that was written to the socket.
TickHandleAck ==
    \E s \in hist.written :
        /\ sw' = handle_ack(sw, <<Single(s)>>, clock)
        /\ last' = [op |-> "handle_ack"]
        /\ hist' = [hist EXCEPT !.acked = @ \cup {s}]
        /\ UNCHANGED <<sess, env, rw, sh, clock>>

SessTick ==
    \E fail_at \in FailAts :
        \E r \in {RakNetSession_tick(rw, sw, clock, fail_at)} :
            /\ rw' = r.rw
            /\ sw' = r.sw
            /\ last' = [op |-> "session_tick", ok |-> r.ok, writes |-> Len(r.wire)]
            /\ hist' = [hist EXCEPT !.written = @ \cup WrittenSeqs(r.wire)]
            /\ UNCHANGED <<sess, env, sh, clock>>

TickAdvanceClock ==
    /\ clock < SendMaxTicks * SendClockStep
    /\ clock' = clock + SendClockStep
    /\ last' = [op |-> "clock"]
    /\ UNCHANGED <<sess, env, rw, sh, sw, hist>>

TickNext ==
    \/ TickQueuePacket
    \/ TickRecvDatagram
    \/ TickHandleAck
    \/ SessTick
    \/ TickAdvanceClock

SpecTick == Init /\ [][TickNext]_vars

\* C8: every sequence number the send window has assigned belongs to a
\* datagram that was written to the socket, or to one that tick will write
\* again (unacknowledged and holding a reliable packet, so that its
\* retransmission timeout applies): no assigned number is left never sent.
C8_SequenceWritten ==
    \A s \in 0 .. (sw.next_sequence_number - 1) :
        \/ s \in hist.written
        \/ /\ MapHas(sw.pending_datagrams, s)
           /\ sw.pending_datagrams[s].has_critical

\* C8 witness: a tick failed on its first socket write, sequence 0 was
\* assigned and never written, and a later tick wrote sequence 1.
C8_Witness ==
    /\ last.op = "session_tick"
    /\ last.ok
    /\ 0 \notin hist.written
    /\ 1 \in hist.written
    /\ rw = ReceiveWindow_new
    /\ ~sw.pending_datagrams[0].has_critical

---------------------------------------------------------------------------
(* The session's acknowledgements: datagrams of the peer arrive, packets   *)
(* are queued for sending, and tick writes the ACK, the NACK and the       *)
(* datagrams to a socket whose writes may fail.                            *)

\* The sequence numbers listed by the ACK packets among what a tick wrote.
AckedOnWire(wire) ==
    UNION { extract_sequence_numbers(wire[i].records) :
                i \in { k \in DOMAIN wire : wire[k].kind = "ack" } }

AckRecvDatagram ==
    \E seq \in 0 .. MaxSeq :
        LET r == RakNetSession_handle_datagram(
                     rw, sh, RecvDatagram(seq, <<PlainPacket(0)>>), clock)
        IN  /\ rw' = r.rw
            /\ sh' = r.sh
            /\ last' = [op |-> "session_handle_datagram", accepted |-> r.accepted]
            /\ hist' = [hist EXCEPT
                   !.accepted = IF r.accepted THEN @ \cup {seq} ELSE @]
            /\ UNCHANGED <<sw, sess, env, clock>>

AckQueuePacket ==
    /\ hist.queued < MaxPackets
    /\ LET r == queue_packet(sw, Fill(0, BigLen), "ReliableOrdered", Some(0))
       IN  /\ sw' = r.sw
           /\ last' = [op |-> "queue_packet"]
           /\ hist' = [hist EXCEPT !.queued = @ + 1]
    /\ UNCHANGED <<rw, sh, sess, env, clock>>

AckSessTick ==
    \E fail_at \in FailAts :
        \E r \in {RakNetSession_tick(rw, sw, clock, fail_at)} :
            /\ rw' = r.rw
            /\ sw' = r.sw
            /\ last' = [ op |-> "session_tick", ok |-> r.ok,
                         acked |-> AckedOnWire(r.wire) ]
            /\ hist' = [hist EXCEPT !.ackSent = @ \cup AckedOnWire(r.wire),
                                    !.written = @ \cup WrittenSeqs(r.wire)]
            /\ UNCHANGED <<sh, sess, env, clock>>

AckNext == AckRecvDatagram \/ AckQueuePacket \/ AckSessTick

SpecAck == Init /\ [][AckNext]_vars

\* C14: the ACK packet a tick writes contains every sequence number that was
\* in the ACK queue when the tick began, the queue is empty after the tick,
\* and every accepted sequence number has been written in an ACK or is still
\* in the queue.
C14_AckByNextTick ==
    [][ /\ last'.op = "session_tick" =>
               /\ Range(rw.ack_queue) \subseteq last'.acked
               /\ rw'.ack_queue = <<>>
        /\ hist'.accepted \subseteq (hist'.ackSent \cup Range(rw'.ack_queue)) ]_vars

\* C14 witness: a tick whose first socket write failed emptied the ACK queue;
\* a later tick succeeded, and an accepted sequence number has still not been
\* written in any ACK.
C14_Witness ==
    /\ last.op = "session_tick"
    /\ last.ok
    /\ rw.ack_queue = <<>>
    /\ 0 \in hist.accepted
    /\ 0 \notin hist.ackSent
    /\ 1 \in hist.ackSent

---------------------------------------------------------------------------
(* The retransmission timer: datagrams are sent and acknowledged after     *)
(* nothing, a fraction of a second or minutes, and the timer ticks.        *)

\* How many times the clock moves in a run.
RtoMaxAdvances == 2

\* The steps of the clock: more than MIN_RTO, and one minute.
RtoShortStep == Duration_as_micros(MIN_RTO) + (Duration_as_micros(MIN_RTO) \div 2)

RtoLongStep == 12 * Duration_as_micros(MAX_RTO)

RtoQueuePacket ==
    /\ hist.queued < MaxPackets
    /\ LET r == queue_packet(sw, Fill(0, BigLen), "ReliableOrdered", Some(0))
       IN  /\ sw' = r.sw
           /\ last' = [op |-> "queue_packet"]
           /\ hist' = [hist EXCEPT !.queued = @ + 1]
    /\ UNCHANGED <<rw, sh, sess, env, clock>>

RtoGetNextDatagram ==
    LET r == get_next_datagram(sw, clock)
    IN  /\ sw' = r.sw
        /\ last' = [op |-> "get_next_datagram", kind |-> r.kind]
        /\ UNCHANGED <<rw, sh, sess, env, clock, hist>>

\* The peer acknowledges one unacknowledged datagram; the round trip sampled
\* is the time since it was last sent.
RtoHandleAck ==
    \E s \in DOMAIN sw.pending_datagrams :
        /\ sw' = handle_ack(sw, <<Single(s)>>, clock)
        /\ last' = [ op |-> "handle_ack",
                     rtt |-> clock - sw.pending_datagrams[s].send_time ]
        /\ UNCHANGED <<rw, sh, sess, env, clock, hist>>

RtoTick ==
    /\ sw' = SendWindow_tick(sw, clock)
    /\ last' = [op |-> "tick"]
    /\ UNCHANGED <<rw, sh, sess, env, clock, hist>>

RtoAdvanceClock ==
    /\ hist.advances < RtoMaxAdvances
    /\ \E step \in {RtoShortStep, RtoLongStep} :
           clock' = clock + step
    /\ last' = [op |-> "clock"]
    /\ hist' = [hist EXCEPT !.advances = @ + 1]
    /\ UNCHANGED <<rw, sh, sw, sess, env>>

RtoNext ==
    \/ RtoQueuePacket
    \/ SendAssignAckId
    \/ RtoGetNextDatagram
    \/ RtoHandleAck
    \/ RtoTick
    \/ RtoAdvanceClock

SpecRto == Init /\ [][RtoNext]_vars

\* C15: in every state of the send window the retransmission timeout is at
\* least MIN_RTO (100 ms) and at most MAX_RTO (5 s).
C15_RtoWithinBounds == DurationLeq(MIN_RTO, sw.rto) /\ DurationLeq(sw.rto, MAX_RTO)

\* C15 witness: the first round trip sampled was zero, which put the smoothed
\* round trip at 0 and the timeout at its minimum; the sample of this ACK was
\* one minute, SRTT + 4 RTTVAR is far above MAX_RTO, and the timeout is
\* MAX_RTO.
C15_Witness ==
    /\ last.op = "handle_ack"
    /\ last.rtt = RtoLongStep
    /\ Unwrap(sw.srtt) = Duration_from_micros(RtoLongStep \div RTT_ALPHA_DEN)
    /\ DurationLess(MAX_RTO,
                    Duration_add(Unwrap(sw.srtt), Duration_mul4(Unwrap(sw.rtt_var))))
    /\ sw.rto = MAX_RTO

---------------------------------------------------------------------------
(* The coalescing of sequence numbers into ACK / NACK records: the         *)
(* function is applied to sorted lists without repeats, made of up to      *)
(* three runs of consecutive numbers, some longer than MAX_RANGE_SIZE.     *)

\* How far beyond MAX_RANGE_SIZE the long runs go.
OptExtra == 50

\* The numbers first, first + 1, ..., first + n - 1.
RunFrom(first, n) == [i \in 1 .. n |-> first + i - 1]

\* The Vec that AckNack::extract_sequence_numbers returns: the numbers of the
\* records, in the order of the records, repeats kept.
RECURSIVE ExtractedList(_)
ExtractedList(records) ==
    IF records = <<>> THEN <<>>
    ELSE LET record == Head(records)
         IN  (IF record.kind = "Single" THEN <<record.start>>
              ELSE RunFrom(record.start, record.end - record.start + 1))
             \o ExtractedList(Tail(records))

OptStarts == {1, 100}

OptRunLengths ==
    { 1, 2, 3, MAX_RANGE_SIZE - 1, MAX_RANGE_SIZE, MAX_RANGE_SIZE + 1,
      MAX_RANGE_SIZE + 2, MAX_RANGE_SIZE + OptExtra }

\* What follows the first run: nothing, or after a gap a second run, and
\* after another gap possibly a third.
OptTails ==
    {<<>>} \cup { <<[gap |-> 2, n |-> k]>> : k \in {1, 3, MAX_RANGE_SIZE + 1} }
           \cup { <<[gap |-> 2, n |-> 1], [gap |-> 2, n |-> 3]>>,
                  <<[gap |-> 3, n |-> MAX_RANGE_SIZE + 2], [gap |-> 2, n |-> 1]>> }

\* The list s followed by the runs of tail, each after its gap.
RECURSIVE AppendRuns(_, _)
AppendRuns(s, tail) ==
    IF tail = <<>> THEN s
    ELSE AppendRuns(s \o RunFrom(s[Len(s)] + Head(tail).gap, Head(tail).n), Tail(tail))

OptInputs ==
    { AppendRuns(RunFrom(first, n), tail) :
          first \in OptStarts, n \in OptRunLengths, tail \in OptTails }

InitOptimize ==
    /\ rw = ReceiveWindow_new
    /\ sh = SplitPacketHandler_new
    /\ sw = SendWindow_new(Mtu, 0)
    /\ sess = SessFields(RakNetSession_new(PeerAddress, Mtu, 0))
    /\ env = NoEnv
    /\ clock = 0
    /\ hist = HistInit
    /\ \E s \in OptInputs : last = [op |-> "input", sorted_seq_nums |-> s]

OptimizeApply ==
    /\ last.op = "input"
    /\ last' = [ op |-> "optimize_ack_nack_records",
                 sorted_seq_nums |-> last.sorted_seq_nums,
                 records |-> optimize_ack_nack_records(last.sorted_seq_nums) ]
    /\ UNCHANGED <<rw, sh, sw, sess, env, clock, hist>>

SpecOptimize == InitOptimize /\ [][OptimizeApply]_vars

\* The length of the run of consecutive numbers the list s begins with.
FirstRunLength(s) ==
    IF s = <<>> THEN 0
    ELSE CHOOSE k \in 1 .. Len(s) :
             /\ \A i \in 2 .. k : s[i] = s[i - 1] + 1
             /\ k = Len(s) \/ s[k + 1] /= s[k] + 1

\* C17: the sequence numbers that the records of optimize_ack_nack_records(S)
\* list are the numbers of S: none of S is missing, none outside S appears,
\* and none is listed twice.
C17_RecordsCoverExactly ==
    last.op = "optimize_ack_nack_records" =>
        LET out == ExtractedList(last.records)
        IN  /\ Range(out) = Range(last.sorted_seq_nums)
            /\ Len(out) = Len(last.sorted_seq_nums)

\* C17 witness: S is the single run 100 .. 100 + MAX_RANGE_SIZE, one number
\* longer than MAX_RANGE_SIZE, and the records list the number after its end.
C17_Witness ==
    /\ last.op = "optimize_ack_nack_records"
    /\ last.sorted_seq_nums = RunFrom(100, MAX_RANGE_SIZE + 1)
    /\ (100 + MAX_RANGE_SIZE + 1) \in Range(ExtractedList(last.records))

\* C18: when S begins with a run of consecutive numbers longer than
\* MAX_RANGE_SIZE, the first record is Range(start, start + MAX_RANGE_SIZE - 1),
\* the second record begins at start + MAX_RANGE_SIZE, and no record covers
\* more than MAX_RANGE_SIZE numbers.
C18_RangesClamped ==
    (/\ last.op = "optimize_ack_nack_records"
     /\ FirstRunLength(last.sorted_seq_nums) > MAX_RANGE_SIZE) =>
        LET start == last.sorted_seq_nums[1]
        IN  /\ Len(last.records) >= 2
            /\ last.records[1] = RangeRec(start, start + MAX_RANGE_SIZE - 1)
            /\ last.records[2].start = start + MAX_RANGE_SIZE
            /\ \A i \in DOMAIN last.records :
                   last.records[i].end - last.records[i].start + 1 <= MAX_RANGE_SIZE

\* C18 witness: S is the run of MAX_RANGE_SIZE + OptExtra numbers from 100, as
\* in test_optimize_large_range_clamping; the first record covers
\* MAX_RANGE_SIZE + 1 numbers and the second begins one number late.
C18_Witness ==
    /\ last.op = "optimize_ack_nack_records"
    /\ last.sorted_seq_nums = RunFrom(100, MAX_RANGE_SIZE + OptExtra)
    /\ last.records[1] = RangeRec(100, 100 + MAX_RANGE_SIZE)
    /\ last.records[2] = Single(100 + MAX_RANGE_SIZE + 1)

---------------------------------------------------------------------------
(* The session's connection state machine: handle_incoming on raw packets, *)
(* on ACK and NACK packets and on valid datagrams, send_packet, a clock.   *)

\* The session, assembled from the variables that hold its fields.
SessOf ==
    [ address |-> sess.address, state |-> sess.state,
      last_activity |-> sess.last_activity, sw |-> sw, rw |-> rw, sh |-> sh ]

ConnMaxSeq == 1

ConnMaxAdvances == 1

ConnMaxPackets == 1

\* The bytes of the three connection messages of the peer: the id, then the
\* fields (a GUID, times, a security byte; addresses for the third).
ConnectionRequestBytes ==
    BytesJoin(<< Fill(CONNECTION_REQUEST, 1), Fill(1, 8), Fill(0, 8), Fill(0, 1) >>)

NewIncomingConnectionBytes ==
    BytesJoin(<< Fill(NEW_INCOMING_CONNECTION, 1), write_address(AddrV4(10, 0, 0, 0, 19132)),
                 WriteDummyAddresses(10), Fill(0, 8), Fill(0, 8) >>)

DisconnectNotificationBytes == Fill(DISCONNECT_NOTIFICATION, 1)

ConnMessages ==
    {ConnectionRequestBytes, NewIncomingConnectionBytes, DisconnectNotificationBytes}

\* A reliable encapsulated packet that carries a message.
ReliableCarrier(message) ==
    EncapsulatedPacket("Reliable", FALSE, Some(0), None, None, None,
                       None, None, None, message, None)

\* What handle_incoming is given: no bytes, bytes that begin with an id
\* without FLAG_VALID, an ACK or a NACK packet (well formed or not), a
\* datagram (well formed or not).
NoBytes ==
    [ empty |-> TRUE, id |-> 0, acknack |-> Err("empty"), datagram |-> Err("empty"),
      raw |-> <<>> ]

RawBytes(message) ==
    [ empty |-> FALSE, id |-> message[1].byte, acknack |-> Err("not an ack"),
      datagram |-> Err("not a datagram"), raw |-> message ]

AckNackBytes(header, decoded) ==
    [ empty |-> FALSE, id |-> header, acknack |-> decoded,
      datagram |-> Err("not a datagram"), raw |-> <<>> ]

DatagramBytes(decoded) ==
    [ empty |-> FALSE, id |-> FLAG_VALID + 4, acknack |-> Err("not an ack"),
      datagram |-> decoded, raw |-> <<>> ]

ConnInputs ==
    {NoBytes, RawBytes(Fill(0, 9))}
    \cup {RawBytes(m) : m \in ConnMessages}
    \cup {AckNackBytes(ACK_HEADER, Ok(<<Single(0)>>)),
          AckNackBytes(NACK_HEADER, Ok(<<Single(0)>>)),
          AckNackBytes(ACK_HEADER, Err("short"))}
    \cup {DatagramBytes(Ok(RecvDatagram(seq, <<ReliableCarrier(m)>>))) :
              seq \in 0 .. ConnMaxSeq, m \in ConnMessages}
    \cup {DatagramBytes(Err("short"))}

ConnHandleIncoming ==
    \E data \in ConnInputs :
        \E r \in {handle_incoming(SessOf, data, clock)} :
            /\ sess' = SessFields(r.s)
            /\ sw' = r.s.sw
            /\ rw' = r.s.rw
            /\ sh' = r.s.sh
            /\ last' = [ op |-> "handle_incoming", data |-> data,
                         payloads |-> r.payloads ]
            /\ UNCHANGED <<env, clock, hist>>

ConnSendPacket ==
    /\ hist.queued < ConnMaxPackets
    /\ \E r \in {send_packet(SessOf, Fill(0, SmallLen), "ReliableOrdered", 0)} :
           /\ sw' = r.sw
           /\ last' = [op |-> "send_packet"]
           /\ hist' = [hist EXCEPT !.queued = @ + 1]
    /\ UNCHANGED <<rw, sh, sess, env, clock>>

ConnGetNextDatagram ==
    \E r \in {get_next_datagram(sw, clock)} :
        /\ sw' = r.sw
        /\ last' = [op |-> "get_next_datagram", ret |-> r.ret]
        /\ UNCHANGED <<rw, sh, sess, env, clock, hist>>

ConnAdvanceClock ==
    /\ hist.advances < ConnMaxAdvances
    /\ clock' = clock + SendClockStep
    /\ last' = [op |-> "advance"]
    /\ hist' = [hist EXCEPT !.advances = @ + 1]
    /\ UNCHANGED <<rw, sh, sw, sess, env>>

ConnNext ==
    \/ ConnHandleIncoming
    \/ ConnSendPacket
    \/ ConnGetNextDatagram
    \/ ConnAdvanceClock

SpecConn == InitSession(SessionAddrs, {NoCall}) /\ [][ConnNext]_vars

\* The messages of what a datagram's packets carry.
CarriedBy(data) ==
    IF data.datagram.ok
    THEN {data.datagram.val.packets[i].buffer : i \in DOMAIN data.datagram.val.packets}
    ELSE {}

\* The ConnectionRequestAccepted packets waiting in the send window.
AcceptedQueued(w) ==
    { i \in DOMAIN w.packet_queue :
          /\ w.packet_queue[i].buffer = ConnectionRequestAcceptedPayload(sess.address)
          /\ w.packet_queue[i].reliability = "ReliableOrdered" }

\* C19: a session in state Connecting that is given a valid datagram whose
\* reliable encapsulated packet carries a ConnectionRequest, and whose receive
\* window hands that packet on, enqueues a ReliableOrdered
\* ConnectionRequestAccepted in its send window and becomes Handshaking.
C19_RequestInDatagram ==
    [][ ( /\ last'.op = "handle_incoming"
          /\ sess.state = "Connecting"
          /\ HasFlagValid(last'.data.id)
          /\ ConnectionRequestBytes \in CarriedBy(last'.data)
          /\ ConnectionRequestBytes \in Range(last'.payloads) )
        => ( /\ sess'.state = "Handshaking"
             /\ Cardinality(AcceptedQueued(sw')) = Cardinality(AcceptedQueued(sw)) + 1 ) ]_vars

\* C19 witness: the session was given the ConnectionRequest inside a valid
\* datagram and handed it upstream as a payload; it is still Connecting and
\* nothing is queued in the send window.
C19_Witness ==
    /\ last.op = "handle_incoming"
    /\ HasFlagValid(last.data.id)
    /\ ConnectionRequestBytes \in CarriedBy(last.data)
    /\ ConnectionRequestBytes \in Range(last.payloads)
    /\ sess.state = "Connecting"
    /\ sw.packet_queue = <<>>

\* Whether the bytes given to handle_incoming are a DisconnectNotification,
\* on their own or carried by a datagram.
IsDisconnect(data) ==
    \/ data.raw = DisconnectNotificationBytes
    \/ DisconnectNotificationBytes \in CarriedBy(data)

\* C20: a session in state Connected that receives a DisconnectNotification
\* becomes Disconnected.
C20_DisconnectWhenConnected ==
    [][ ( /\ last'.op = "handle_incoming"
          /\ sess.state = "Connected"
          /\ IsDisconnect(last'.data) )
        => sess'.state = "Disconnected" ]_vars

\* C20 witness: the session has just been given a DisconnectNotification as a
\* raw packet and is Connected.
C20_Witness ==
    /\ last.op = "handle_incoming"
    /\ last.data.raw = DisconnectNotificationBytes
    /\ sess.state = "Connected"

---------------------------------------------------------------------------
\* C21: the session hands a payload of an encapsulated packet upstream only
\* while its state is Connected.
C21_UpstreamOnlyConnected ==
    [][ (last'.op = "handle_incoming" /\ last'.payloads /= <<>>)
        => sess.state = "Connected" ]_vars

\* C21 witness: a session that has answered the ConnectionRequest and is
\* Handshaking was given a valid datagram and handed its payload upstream.
C21_Witness ==
    /\ last.op = "handle_incoming"
    /\ HasFlagValid(last.data.id)
    /\ last.payloads /= <<>>
    /\ sess.state = "Handshaking"

---------------------------------------------------------------------------

(* The session and its peer over a lossy link. The session's ticks write   *)
(* datagrams to a channel that keeps their order and may drop them; the    *)
(* peer hands the ordered packets upstream and answers each datagram with  *)
(* an ACK, and a NACK for a gap; these reach the session. Ticks,           *)
(* deliveries and the clock keep running.                                  *)

LinkMaxPackets == 2

LinkMaxDrops == 1

LinkMaxAdvances == 1

\* One step of the clock is more than any retransmission timeout.
LinkClockStep == Duration_as_micros(MAX_RTO) + Duration_as_micros(MIN_RTO)

\* The peer's connection packets, sent raw: the handshake of the session.
LinkHandshake ==
    /\ ~is_connected(SessOf)
    /\ \E m \in {ConnectionRequestBytes, NewIncomingConnectionBytes} :
        \E r \in {handle_incoming(SessOf, RawBytes(m), clock)} :
            /\ sess' = SessFields(r.s)
            /\ sw' = r.s.sw
            /\ rw' = r.s.rw
            /\ sh' = r.s.sh
            /\ last' = [op |-> "handshake"]
            /\ UNCHANGED <<env, clock, hist>>

\* send_packet of a reliable-ordered message on a Connected session; the
\* payload carries the message's number.
LinkSendPacket ==
    /\ is_connected(SessOf)
    /\ Len(env.sent) < LinkMaxPackets
    /\ \E payload \in {Fill(Len(env.sent) + 1, BigLen)} :
           /\ sw' = send_packet(SessOf, payload, "ReliableOrdered", 0).sw
           /\ env' = [env EXCEPT !.sent = Append(@, payload)]
           /\ last' = [op |-> "send_packet"]
           /\ UNCHANGED <<rw, sh, sess, clock, hist>>

\* The datagrams among what a tick wrote, as the peer will decode them.
RECURSIVE DatagramsOf(_)
DatagramsOf(wire) ==
    IF wire = <<>> THEN <<>>
    ELSE (IF Head(wire).kind = "datagram"
          THEN <<RecvDatagram(Head(wire).sequence_number, Head(wire).packets)>>
          ELSE <<>>) \o DatagramsOf(Tail(wire))

\* The sequence numbers a tick wrote as retransmissions.
ResentSeqs(wire) ==
    { wire[i].sequence_number :
          i \in { k \in DOMAIN wire : wire[k].kind = "datagram" /\ wire[k].resend } }

\* RakNetSession::tick with a socket that accepts every write.
LinkSessTick ==
    \E r \in {RakNetSession_tick(rw, sw, clock, 0)} :
        /\ rw' = r.rw
        /\ sw' = r.sw
        /\ env' = [env EXCEPT !.to_peer = @ \o DatagramsOf(r.wire)]
        /\ last' = [ op |-> "session_tick", resent |-> ResentSeqs(r.wire),
                     wrote |-> WrittenSeqs(r.wire) ]
        /\ hist' = [hist EXCEPT !.ticks = 1 - @]
        /\ UNCHANGED <<sh, sess, clock>>

\* The peer: it acknowledges every datagram it receives, names in a NACK the
\* sequence numbers below a new datagram's that it has not received, and
\* hands the ordered packets upstream by order index.
RECURSIVE PeerHold(_, _)
PeerHold(e, packets) ==
    IF packets = <<>> THEN e
    ELSE LET packet == Head(packets)
             oi == Unwrap(packet.order_index)
         IN  PeerHold(IF oi >= e.next /\ ~MapHas(e.held, oi)
                      THEN [e EXCEPT !.held = MapPut(@, oi, packet.buffer)]
                      ELSE e,
                      Tail(packets))

RECURSIVE PeerHandUp(_)
PeerHandUp(e) ==
    IF MapHas(e.held, e.next)
    THEN PeerHandUp([e EXCEPT !.delivered = Append(@, e.held[e.next]),
                              !.held = MapRemove(@, e.next),
                              !.next = @ + 1])
    ELSE e

PeerMissing(e, seq) == {k \in 0 .. seq : k < seq /\ k \notin e.got}

PeerReceive(e, datagram) ==
    LET seq == datagram.sequence_number
        ack == [is_nack |-> FALSE, records |-> <<Single(seq)>>]
        nack == [ is_nack |-> TRUE,
                  records |-> [ i \in 1 .. Cardinality(PeerMissing(e, seq)) |->
                                    Single(SortedSeq(PeerMissing(e, seq))[i]) ] ]
    IN  IF seq \in e.got
        THEN [e EXCEPT !.to_server = Append(@, ack)]
        ELSE [ PeerHandUp(PeerHold(e, datagram.packets)) EXCEPT
                   !.got = @ \cup {seq},
                   !.to_server = IF PeerMissing(e, seq) = {} THEN Append(@, ack)
                                 ELSE @ \o <<ack, nack>> ]

\* The channel delivers its oldest datagram to the peer.
LinkDeliver ==
    /\ env.to_peer /= <<>>
    /\ \E e \in {PeerReceive([env EXCEPT !.to_peer = Tail(@)], Head(env.to_peer))} :
           env' = e
    /\ last' = [op |-> "deliver"]
    /\ UNCHANGED <<rw, sh, sw, sess, clock, hist>>

\* The channel drops one of its datagrams, while time can still pass.
LinkDrop ==
    /\ env.drops < LinkMaxDrops
    /\ hist.advances < LinkMaxAdvances
    /\ \E i \in DOMAIN env.to_peer :
           env' = [env EXCEPT
               !.to_peer = SubSeq(@, 1, i - 1) \o SubSeq(@, i + 1, Len(@)),
               !.drops = @ + 1]
    /\ last' = [op |-> "drop"]
    /\ UNCHANGED <<rw, sh, sw, sess, clock, hist>>

\* The peer's oldest ACK or NACK packet reaches the session.
LinkAckArrives ==
    /\ env.to_server /= <<>>
    /\ \E r \in {handle_incoming(
                     SessOf,
                     AckNackBytes(IF Head(env.to_server).is_nack THEN NACK_HEADER
                                  ELSE ACK_HEADER,
                                  Ok(Head(env.to_server).records)),
                     clock)} :
           /\ sess' = SessFields(r.s)
           /\ sw' = r.s.sw
           /\ rw' = r.s.rw
           /\ sh' = r.s.sh
    /\ env' = [env EXCEPT !.to_server = Tail(@)]
    /\ last' = [op |-> "ack_arrives", is_nack |-> Head(env.to_server).is_nack]
    /\ UNCHANGED <<clock, hist>>

LinkAdvanceClock ==
    /\ hist.advances < LinkMaxAdvances
    /\ clock' = clock + LinkClockStep
    /\ last' = [op |-> "advance"]
    /\ hist' = [hist EXCEPT !.advances = @ + 1]
    /\ UNCHANGED <<rw, sh, sw, sess, env>>

LinkNext ==
    \/ LinkHandshake
    \/ LinkSendPacket
    \/ LinkSessTick
    \/ LinkDeliver
    \/ LinkDrop
    \/ LinkAckArrives
    \/ LinkAdvanceClock

\* The server ticks every session periodically (a tick is always possible),
\* the channel delivers infinitely often unless it is empty infinitely often
\* (weak fairness of LinkDeliver, which is enabled exactly when the channel
\* holds a datagram), the peer's answers arrive and time passes.
SpecLink ==
    /\ Init
    /\ [][LinkNext]_vars
    /\ []<><<LinkSessTick>>_vars
    /\ ([]<>(env.to_peer = <<>>) \/ []<><<LinkDeliver>>_vars)
    /\ WF_vars(LinkAckArrives)
    /\ WF_vars(LinkAdvanceClock)

\* The messages the peer handed upstream, the session's own
\* ConnectionRequestAccepted left out.
RECURSIVE WithoutAccepted(_)
WithoutAccepted(payloads) ==
    IF payloads = <<>> THEN <<>>
    ELSE (IF Head(payloads) = ConnectionRequestAcceptedPayload(sess.address) THEN <<>>
          ELSE <<Head(payloads)>>) \o WithoutAccepted(Tail(payloads))

PeerMessages == WithoutAccepted(env.delivered)

\* C12: what the peer has been handed is always a prefix of the messages
\* queued on the Connected session (same order, same payloads), and every
\* queued message is eventually handed to the peer.
C12_EveryMessageDelivered ==
    /\ [](/\ Len(PeerMessages) <= Len(env.sent)
          /\ \A i \in DOMAIN PeerMessages : PeerMessages[i] = env.sent[i])
    /\ \A i \in 1 .. LinkMaxPackets :
           (Len(env.sent) >= i) ~> (Len(PeerMessages) >= i)

\* C12 witness: a message was queued on the Connected session, the channel
\* dropped a datagram and is empty, no answer of the peer is on its way, the
\* session has just ticked and written nothing, and the peer lacks a message.
C12_Witness ==
    /\ sess.state = "Connected"
    /\ env.drops > 0
    /\ env.to_peer = <<>>
    /\ env.to_server = <<>>
    /\ last.op = "session_tick"
    /\ last.wrote = {}
    /\ Len(PeerMessages) < Len(env.sent)
    /\ sw.resend_queue /= {}

\* C13: a pending sequence that is marked for retransmission is later
\* written again by a tick as a retransmission, or acknowledged.
C13_MarkedIsResent ==
    \A s \in 0 .. LinkMaxPackets :
        (s \in sw.resend_queue /\ MapHas(sw.pending_datagrams, s))
            ~> ( \/ ~MapHas(sw.pending_datagrams, s)
                 \/ (last.op = "session_tick" /\ s \in last.resent) )

\* C13 witness: the tick that marked a timed-out sequence and cut the
\* congestion window has returned nothing: the retransmission does not fit
\* the window that is left, counted on top of the bytes in flight.
C13_Witness ==
    /\ last.op = "session_tick"
    /\ last.resent = {}
    /\ \E s \in sw.resend_queue :
           /\ MapHas(sw.pending_datagrams, s)
           /\ sw.cwnd = MIN_CWND_BYTES
           /\ CongestionSize(sw.pending_datagrams[s].datagram) <= sw.cwnd
           /\ sw.bytes_in_flight
                  + CongestionSize(sw.pending_datagrams[s].datagram) > sw.cwnd

---------------------------------------------------------------------------
(* The session's receive path with its tick: datagrams that carry          *)
(* fragments arrive, time passes, and the session ticks.                   *)

\* RakNetSession::tick with a socket that accepts every write. The tick
\* calls the receive window and the send window, and nothing else.
SplitSessTick ==
    \E r \in {RakNetSession_tick(rw, sw, clock, 0)} :
        /\ rw' = r.rw
        /\ sw' = r.sw
        /\ last' = [op |-> "session_tick", acked |-> AckedOnWire(r.wire)]
        /\ UNCHANGED <<sh, sess, env, clock, hist>>

SessSplitNext == SessHandleDatagram \/ SessAdvanceClock \/ SplitSessTick

SpecSessionSplit == Init /\ [][SessSplitNext]_vars

\* The split ids whose reassembly began more than SPLIT_PACKET_TIMEOUT before
\* now.
StaleSplits(h, now) ==
    { id \in DOMAIN h.reassembly_map :
          now - h.reassembly_map[id].first_part_time > SPLIT_PACKET_TIMEOUT }

\* C26: a datagram that leaves a reassembly in progress hands no reassembled
\* payload upstream, and after a tick of the session no reassembly older
\* than SPLIT_PACKET_TIMEOUT is left in the split handler.
C26_TickDiscardsStale ==
    [][ /\ (last'.op = "session_handle_datagram"
            /\ \E id \in DOMAIN sh'.reassembly_map : MapHas(sh.reassembly_map, id))
           => OriginalPayload(SplitN) \notin Range(last'.payloads)
        /\ last'.op = "session_tick" => StaleSplits(sh', clock') = {} ]_vars

\* C26 witness: the session has just ticked, more than SPLIT_PACKET_TIMEOUT
\* after the first fragment of a reassembly that is still in the split
\* handler, and nothing was handed upstream.
C26_Witness ==
    /\ last.op = "session_tick"
    /\ StaleSplits(sh, clock) /= {}
    /\ hist.upstream = <<>>

---------------------------------------------------------------------------
(* The split reassembler under many split ids: first fragments of ever new *)
(* split ids arrive, and every fragment of the first two split ids.        *)

\* How many split ids beyond MAX_CONCURRENT_SPLITS are tried.
SplitExtraIds == 2

\* The smallest split id from 2 on that the handler does not track.
FreshSplitId(h) ==
    CHOOSE id \in 2 .. (MAX_CONCURRENT_SPLITS + 2) :
        /\ ~MapHas(h.reassembly_map, id)
        /\ \A k \in 2 .. (id - 1) : MapHas(h.reassembly_map, k)

ManyPool(h) ==
    { Fragment(id, SplitN, i) : id \in SplitIds, i \in 0 .. (SplitN - 1) }
    \cup { Fragment(FreshSplitId(h), SplitN, 0) }

ManyHandlePacket ==
    /\ hist.queued < MAX_CONCURRENT_SPLITS + SplitExtraIds
    /\ \E packet \in ManyPool(sh) :
        \E r \in {handle_packet(sh, packet, clock)} :
            /\ sh' = r.sh
            /\ last' = [op |-> "handle_packet", packet |-> packet, ret |-> r.ret]
            /\ hist' = [hist EXCEPT
                   !.queued = IF Unwrap(packet.split_id) \in SplitIds THEN @ ELSE @ + 1]
            /\ UNCHANGED <<sess, env, rw, sw, clock>>

SpecSplitMany == Init /\ [][ManyHandlePacket]_vars

\* C27: the split handler never tracks more than MAX_CONCURRENT_SPLITS
\* reassemblies; with that many tracked, a fragment of a split id that is not
\* tracked returns TooManySplitPackets and changes nothing, and a fragment of
\* a tracked split id that fills a missing index is stored or completes.
C27_AtMost64Reassemblies ==
    [][ last'.op = "handle_packet" =>
          LET id == Unwrap(last'.packet.split_id)
              i == Unwrap(last'.packet.split_index)
              full == Cardinality(DOMAIN sh.reassembly_map) = MAX_CONCURRENT_SPLITS
          IN  /\ Cardinality(DOMAIN sh'.reassembly_map) <= MAX_CONCURRENT_SPLITS
              /\ (full /\ ~MapHas(sh.reassembly_map, id)) =>
                     (last'.ret = Err("TooManySplitPackets") /\ sh' = sh)
              /\ (full /\ MapHas(sh.reassembly_map, id) /\ i \notin FilledIndices(sh, id)) =>
                     /\ last'.ret.ok
                     /\ \/ FilledIndices(sh', id) = FilledIndices(sh, id) \cup {i}
                        \/ /\ ~MapHas(sh'.reassembly_map, id)
                           /\ last'.ret = Ok(Some(OriginalPayload(SplitN))) ]_vars

\* C27 witness: with MAX_CONCURRENT_SPLITS reassemblies tracked, the first
\* fragment of one more split id has just been refused.
C27_Witness ==
    /\ last.op = "handle_packet"
    /\ last.ret = Err("TooManySplitPackets")
    /\ Cardinality(DOMAIN sh.reassembly_map) = MAX_CONCURRENT_SPLITS
    /\ ~MapHas(sh.reassembly_map, Unwrap(last.packet.split_id))

---------------------------------------------------------------------------
(* protocol/datagram.rs, decoding of an encapsulated packet                *)

\* Buf::get_u8 and friends: the byte at offset pos (from 0) of a byte string.
RECURSIVE ByteAt(_, _)
ByteAt(b, pos) ==
    IF pos < Head(b).n THEN Head(b).byte ELSE ByteAt(Tail(b), pos - Head(b).n)

\* Buf::copy_to_bytes(k) at offset pos: the k bytes from pos on.
RECURSIVE BytesSlice(_, _, _)
BytesSlice(b, pos, k) ==
    IF k = 0 \/ b = <<>> THEN <<>>
    ELSE IF pos >= Head(b).n THEN BytesSlice(Tail(b), pos - Head(b).n, k)
    ELSE LET take == Min(k, Head(b).n - pos)
         IN  BytesConcat(Fill(Head(b).byte, take), BytesSlice(Tail(b), 0, k - take))

\* Reliability::from_u8
Reliability_from_u8(val) ==
    CASE val = 0 -> Ok("Unreliable")
      [] val = 1 -> Ok("UnreliableSequenced")
      [] val = 2 -> Ok("Reliable")
      [] val = 3 -> Ok("ReliableOrdered")
      [] val = 4 -> Ok("ReliableSequenced")
      [] val = 5 -> Ok("UnreliableWithAckReceipt")
      [] val = 6 -> Ok("ReliableWithAckReceipt")
      [] val = 7 -> Ok("ReliableOrderedWithAckReceipt")
      [] OTHER -> Err("InvalidData")

\* BinaryError::UnexpectedEof { needed, remaining }
UnexpectedEof(needed, remaining) ==
    Err([kind |-> "UnexpectedEof", needed |-> needed, remaining |-> remaining])

\* (length_bits + 7) / 8 in u16 arithmetic. A sum above u16::MAX panics in a
\* build with overflow checks and wraps in a build without.
LengthBytes(length_bits, overflow_checks) ==
    IF length_bits + 7 > U16_MAX
    THEN IF overflow_checks THEN Panicked
         ELSE Ok(((length_bits + 7) % (U16_MAX + 1)) \div 8)
    ELSE Ok((length_bits + 7) \div 8)

\* EncapsulatedPacket::decode on a reader that holds the bytes data: Ok with
\* the packet and the reader's position afterwards, an error, or a panic.
EncapsulatedPacket_decode(data, overflow_checks) ==
    LET total == BytesLen(data) IN
    IF total < 3 THEN UnexpectedEof(3, total)
    ELSE
    LET flags == ByteAt(data, 0)
        rel == Reliability_from_u8(flags \div 32)
        is_split == (flags \div 16) % 2 = 1
        length_bits == ByteAt(data, 1) * 256 + ByteAt(data, 2)
        length_bytes == LengthBytes(length_bits, overflow_checks)
    IN  IF ~rel.ok THEN rel
        ELSE IF ~length_bytes.ok THEN length_bytes
        ELSE
        LET r == rel.val
            p0 == 3
            p1 == IF is_reliable(r) THEN p0 + 3 ELSE p0
            p2 == IF is_sequenced(r) THEN p1 + 3 ELSE p1
            p3 == IF is_ordered(r) \/ is_sequenced(r) THEN p2 + 3 + 1 ELSE p2
            p4 == IF is_split THEN p3 + 4 + 2 + 4 ELSE p3
            LE3(pos) == ByteAt(data, pos) + 256 * ByteAt(data, pos + 1)
                        + 65536 * ByteAt(data, pos + 2)
            BE2(pos) == ByteAt(data, pos) * 256 + ByteAt(data, pos + 1)
            BE4(pos) == BE2(pos) * 65536 + BE2(pos + 2)
        IN  IF is_reliable(r) /\ total - p0 < 3 THEN UnexpectedEof(3, total - p0)
            ELSE IF is_sequenced(r) /\ total - p1 < 3 THEN UnexpectedEof(3, total - p1)
            ELSE IF (is_ordered(r) \/ is_sequenced(r)) /\ total - p2 < 3
            THEN UnexpectedEof(3, total - p2)
            ELSE IF (is_ordered(r) \/ is_sequenced(r)) /\ total - (p2 + 3) < 1
            THEN UnexpectedEof(1, total - (p2 + 3))
            ELSE IF is_split /\ total - p3 < 4 THEN UnexpectedEof(4, total - p3)
            ELSE IF is_split /\ total - (p3 + 4) < 2 THEN UnexpectedEof(2, total - (p3 + 4))
            ELSE IF is_split /\ total - (p3 + 6) < 4 THEN UnexpectedEof(4, total - (p3 + 6))
            ELSE IF total - p4 < length_bytes.val
            THEN UnexpectedEof(length_bytes.val, total - p4)
            ELSE Ok([ packet |->
                        EncapsulatedPacket(r, is_split,
                            IF is_reliable(r) THEN Some(LE3(p0)) ELSE None,
                            IF is_sequenced(r) THEN Some(LE3(p1)) ELSE None,
                            IF is_ordered(r) \/ is_sequenced(r) THEN Some(LE3(p2)) ELSE None,
                            IF is_ordered(r) \/ is_sequenced(r)
                            THEN Some(ByteAt(data, p2 + 3)) ELSE None,
                            IF is_split THEN Some(BE4(p3)) ELSE None,
                            IF is_split THEN Some(BE2(p3 + 4)) ELSE None,
                            IF is_split THEN Some(BE4(p3 + 6)) ELSE None,
                            BytesSlice(data, p4, length_bytes.val), None),
                      consumed |-> p4 + length_bytes.val ])

---------------------------------------------------------------------------
(* Decoding encapsulated packets a peer sends                              *)

\* The bit lengths tried: small ones, the largest whose sum with 7 fits u16,
\* and the seven above it.
DecodeLengths == {0, 1, 8, 9, 16, 65528} \cup (65529 .. 65535)

\* How many bytes follow the length field.
DecodeRests == {0, 2, 6, 20, 21, 23, 8191, 8192, 8220}

\* The flags byte: the reliability in the top three bits, the split bit.
DecodeFlags == { rel * 32 + split * 16 : rel \in 0 .. 7, split \in 0 .. 1 }

\* The bytes of an encapsulated packet as a peer may send them.
PacketBytes(flags, length_bits, rest) ==
    BytesJoin(<< Fill(flags, 1), Fill(length_bits \div 256, 1),
                 Fill(length_bits % 256, 1), Fill(1, rest) >>)

\* The state before a call of a function on one of the inputs given.
InitFrom(inputs) ==
    /\ rw = ReceiveWindow_new
    /\ sh = SplitPacketHandler_new
    /\ sw = SendWindow_new(Mtu, 0)
    /\ sess = SessFields(RakNetSession_new(PeerAddress, Mtu, 0))
    /\ env = NoEnv
    /\ clock = 0
    /\ hist = HistInit
    /\ \E i \in inputs : last = i

DecodeInputs ==
    { [ op |-> "input", flags |-> flags, length_bits |-> length_bits, rest |-> rest,
        overflow_checks |-> overflow_checks ] :
          flags \in DecodeFlags, length_bits \in DecodeLengths, rest \in DecodeRests,
          overflow_checks \in BOOLEAN }

DecodeCall ==
    /\ last.op = "input"
    /\ \E r \in {EncapsulatedPacket_decode(
                     PacketBytes(last.flags, last.length_bits, last.rest),
                     last.overflow_checks)} :
           last' = [ op |-> "decode", flags |-> last.flags,
                     length_bits |-> last.length_bits, rest |-> last.rest,
                     overflow_checks |-> last.overflow_checks, ret |-> r ]
    /\ UNCHANGED <<rw, sh, sw, sess, env, clock, hist>>

SpecDecode == InitFrom(DecodeInputs) /\ [][DecodeCall]_vars

\* The bytes of the header fields between the length field and the payload.
FieldBytes(flags) ==
    LET r == Reliability_from_u8(flags \div 32).val
    IN  (IF is_reliable(r) THEN 3 ELSE 0) + (IF is_sequenced(r) THEN 3 ELSE 0)
        + (IF is_ordered(r) \/ is_sequenced(r) THEN 4 ELSE 0)
        + (IF (flags \div 16) % 2 = 1 THEN 10 ELSE 0)

\* ceil(L / 8) for the bit lengths named.
DecodedAsCeil(lengths) ==
    (last.op = "decode" /\ last.length_bits \in lengths
       /\ last.rest >= FieldBytes(last.flags)) =>
        LET bytes == (last.length_bits + 7) \div 8
            left == last.rest - FieldBytes(last.flags)
        IN  IF left >= bytes
            THEN /\ last.ret.ok
                 /\ BytesLen(last.ret.val.packet.buffer) = bytes
                 /\ last.ret.val.consumed = 3 + FieldBytes(last.flags) + bytes
            ELSE last.ret = UnexpectedEof(bytes, left)

\* C28: for every 16-bit value L of the bit-length field, 65529..65535
\* included, EncapsulatedPacket::decode takes ceil(L / 8) as the payload
\* length without overflow or panic, and then reads that many bytes or
\* returns an unexpected-end error.
C28_LengthIsCeil == DecodedAsCeil(0 .. U16_MAX)

\* C28 witness: a bit length of 65535 has made decode panic.
C28_Witness ==
    /\ last.op = "decode"
    /\ last.length_bits = U16_MAX
    /\ last.rest = 8192
    /\ last.ret = Panicked

\* The same for the bit lengths whose sum with 7 fits 16 bits.
DecodeCeilUpTo65528 == DecodedAsCeil(0 .. (U16_MAX - 7))

\* Without overflow checks the seven largest bit lengths decode as an empty
\* payload.
DecodeWrapsToEmpty ==
    (last.op = "decode" /\ last.length_bits > U16_MAX - 7 /\ ~last.overflow_checks
       /\ last.rest >= FieldBytes(last.flags)) =>
        (last.ret.ok /\ last.ret.val.packet.buffer = <<>>)

---------------------------------------------------------------------------
(* The receive window and a peer that sends sequence numbers far ahead     *)

\* How many datagrams the receive window accepts.
FarMaxDatagrams == 3

\* The number the window size check compares a sequence number with.
WindowBase(w) ==
    IF w.received_datagrams /= {} THEN SetMax(w.received_datagrams)
    ELSE w.expected_sequence_number

\* The sequence numbers the peer picks: the first two, and the last one inside
\* and the first one outside of what the window size check lets through.
FarSeqs(w) ==
    {0, 1, WindowBase(w) + MAX_RECV_WINDOW_SIZE, WindowBase(w) + MAX_RECV_WINDOW_SIZE + 1}

FarHandleDatagram ==
    /\ Cardinality(hist.accepted) < FarMaxDatagrams
    /\ \E seq \in FarSeqs(rw), packets \in {<<>>, <<PlainPacket(1)>>} :
        \E r \in {ReceiveWindow_handle_datagram(rw, RecvDatagram(seq, packets))} :
            /\ rw' = r.rw
            /\ last' = [ op |-> "handle_datagram", seq |-> seq,
                         plain |-> PlainOf(packets), ret |-> r.ret,
                         accepted |-> r.accepted ]
            /\ hist' = [hist EXCEPT
                   !.accepted = IF r.accepted THEN @ \cup {seq} ELSE @,
                   !.pendingAck = IF r.accepted THEN @ \cup {seq} ELSE @]
            /\ UNCHANGED <<sess, env, sh, sw, clock>>

FarNext == FarHandleDatagram \/ RecvCreateAck \/ RecvCreateNack

SpecRecvFar == Init /\ [][FarNext]_vars

\* The distance between the expected sequence number and the highest one the
\* window accepted.
AcceptedAhead == 
    IF hist.accepted = {} THEN 0
    ELSE SetMax(hist.accepted \cup {rw.expected_sequence_number})
         - rw.expected_sequence_number

\* C29: whatever datagrams the peer sends, received_datagrams and nack_queue
\* never hold more than MAX_RECV_WINDOW_SIZE entries each, and the highest
\* accepted sequence number is never more than MAX_RECV_WINDOW_SIZE ahead of
\* the expected one.
C29_ReceiveStateBounded ==
    /\ Cardinality(rw.received_datagrams) <= MAX_RECV_WINDOW_SIZE
    /\ Cardinality(rw.nack_queue) <= MAX_RECV_WINDOW_SIZE
    /\ AcceptedAhead <= MAX_RECV_WINDOW_SIZE

\* C29 witness: three datagrams were accepted, each MAX_RECV_WINDOW_SIZE
\* after the one before; the NACK set holds more than MAX_RECV_WINDOW_SIZE
\* numbers and the last one is two window sizes ahead of the expected one.
C29_Witness ==
    /\ last.op = "handle_datagram"
    /\ last.accepted
    /\ hist.accepted = {1, 1 + MAX_RECV_WINDOW_SIZE, 1 + 2 * MAX_RECV_WINDOW_SIZE}
    /\ rw.expected_sequence_number = 0
    /\ Cardinality(rw.nack_queue) > MAX_RECV_WINDOW_SIZE
    /\ AcceptedAhead = 1 + 2 * MAX_RECV_WINDOW_SIZE

\* The window size check does what it says: an accepted datagram is at most
\* MAX_RECV_WINDOW_SIZE after the number it was compared with.
FarAcceptedWithinBase ==
    [][ (last'.op = "handle_datagram" /\ last'.accepted)
          => last'.seq - WindowBase(rw) <= MAX_RECV_WINDOW_SIZE ]_vars

---------------------------------------------------------------------------
(* protocol/mod.rs, the unconnected handshake                              *)

OPEN_CONNECTION_REQUEST_1 == 5

OPEN_CONNECTION_REPLY_1 == 6

OPEN_CONNECTION_REQUEST_2 == 7

OPEN_CONNECTION_REPLY_2 == 8

INCOMPATIBLE_PROTOCOL_VERSION == 25

MIN_MTU_SIZE == 400

MAX_UDP_PACKET_SIZE == 1492

OFFLINE_MESSAGE_DATA_ID ==
    BytesJoin(<< Fill(0, 1), Fill(255, 2), Fill(0, 1), Fill(254, 4), Fill(253, 4),
                 Fill(18, 1), Fill(52, 1), Fill(86, 1), Fill(120, 1) >>)

\* RakNetServerConfig::default
RakNetServerConfig_default ==
    [ max_connections |-> 1000, raknet_protocol_version |-> 11, mtu |-> 1400 ]

\* write_u16_be
write_u16_be(v) == BytesJoin(<< Fill(v \div 256, 1), Fill(v % 256, 1) >>)

\* read_u16_be at offset pos of bytes that hold it.
get_u16(b, pos) == ByteAt(b, pos) * 256 + ByteAt(b, pos + 1)

\* write_i64_be for a value from 0 to 2^31 - 1.
write_i64_be(v) ==
    BytesJoin(<< Fill(0, 4), Fill(v \div 16777216, 1), Fill((v \div 65536) % 256, 1),
                 Fill((v \div 256) % 256, 1), Fill(v % 256, 1) >>)

\* send_incompatible_protocol: the packet written.
send_incompatible_protocol(server_guid, server_protocol_version) ==
    BytesJoin(<< Fill(INCOMPATIBLE_PROTOCOL_VERSION, 1), Fill(server_protocol_version, 1),
                 OFFLINE_MESSAGE_DATA_ID, write_i64_be(server_guid) >>)

\* handle_open_connection_request_1: the packets it sends to src_addr, none
\* for a request it ignores.
handle_open_connection_request_1(is_ipv4, data, server_guid, config) ==
    IF BytesLen(data) < 1 + 16 + 1 THEN <<>>
    ELSE IF BytesSlice(data, 1, 16) /= OFFLINE_MESSAGE_DATA_ID THEN <<>>
    ELSE IF ByteAt(data, 17) /= config.raknet_protocol_version
    THEN << send_incompatible_protocol(server_guid, config.raknet_protocol_version) >>
    ELSE LET ip_header_size == IF is_ipv4 THEN 20 ELSE 40
             calculated_mtu == BytesLen(data) + ip_header_size + 8
             server_mtu == config.mtu
             final_mtu == Min(calculated_mtu, server_mtu)
         IN  << BytesJoin(<< Fill(OPEN_CONNECTION_REPLY_1, 1), OFFLINE_MESSAGE_DATA_ID,
                             write_i64_be(server_guid), Fill(0, 1),
                             write_u16_be(final_mtu % 65536) >>) >>

---------------------------------------------------------------------------
(* OpenConnectionRequest1 packets of every length                          *)

ServerGuid == 7

\* The lengths of the datagrams received: the shortest request, those around
\* the shortest that is answered with MIN_MTU_SIZE, and up to the receive
\* buffer of the run loop.
Ocr1Lengths ==
    {17, 18, 19, 351, 352, 371, 372, 373, 1000, 1351, 1352, 1371, 1372, 1373,
     MAX_UDP_PACKET_SIZE}

Ocr1Mtus == {MIN_MTU_SIZE, 576, RakNetServerConfig_default.mtu, MAX_UDP_PACKET_SIZE}

\* An OpenConnectionRequest1 of len bytes: the id, the magic (or not), the
\* protocol version, zero padding.
Ocr1Bytes(len, magic_ok, version) ==
    BytesSlice(
        BytesJoin(<< Fill(OPEN_CONNECTION_REQUEST_1, 1),
                     IF magic_ok THEN OFFLINE_MESSAGE_DATA_ID ELSE Fill(0, 16),
                     Fill(version, 1), Fill(0, len) >>),
        0, len)

Ocr1Inputs ==
    { [ op |-> "input", len |-> len, magic_ok |-> magic_ok, version |-> version,
        is_ipv4 |-> is_ipv4, mtu |-> mtu ] :
          len \in Ocr1Lengths, magic_ok \in BOOLEAN, version \in {10, 11},
          is_ipv4 \in BOOLEAN, mtu \in Ocr1Mtus }

Ocr1Call ==
    /\ last.op = "input"
    /\ \E sent \in {handle_open_connection_request_1(
                        last.is_ipv4, Ocr1Bytes(last.len, last.magic_ok, last.version),
                        ServerGuid,
                        [RakNetServerConfig_default EXCEPT !.mtu = last.mtu])} :
           last' = [ op |-> "handle_open_connection_request_1", len |-> last.len,
                     magic_ok |-> last.magic_ok, version |-> last.version,
                     is_ipv4 |-> last.is_ipv4, mtu |-> last.mtu, sent |-> sent ]
    /\ UNCHANGED <<rw, sh, sw, sess, env, clock, hist>>

SpecOcr1 == InitFrom(Ocr1Inputs) /\ [][Ocr1Call]_vars

\* The call was given a whole OpenConnectionRequest1 with the server's
\* protocol version.
Ocr1Matching ==
    /\ last.op = "handle_open_connection_request_1"
    /\ last.len >= 18
    /\ last.magic_ok
    /\ last.version = RakNetServerConfig_default.raknet_protocol_version

\* The MTU field of the OpenConnectionReply1 sent.
RepliedMtu == get_u16(last.sent[1], 1 + 16 + 8 + 1)

\* min(received length + IP header + 8, server MTU)
NegotiatedMtu == Min(last.len + (IF last.is_ipv4 THEN 20 ELSE 40) + 8, last.mtu)

\* C24: for every OpenConnectionRequest1 with the server's protocol version
\* the MTU written in OpenConnectionReply1 is min(received length + IP header
\* + 8, server MTU) raised to 400 if below, so it is never below 400 and
\* never above the server MTU.
C24_ReplyMtuClamped ==
    Ocr1Matching =>
        /\ Len(last.sent) = 1
        /\ ByteAt(last.sent[1], 0) = OPEN_CONNECTION_REPLY_1
        /\ RepliedMtu = Max(NegotiatedMtu, MIN_MTU_SIZE)
        /\ RepliedMtu >= MIN_MTU_SIZE
        /\ RepliedMtu <= last.mtu

\* C24 witness: the shortest request over IPv4 was answered with an MTU of 46.
C24_Witness ==
    /\ Ocr1Matching
    /\ last.len = 18
    /\ last.is_ipv4
    /\ last.mtu = RakNetServerConfig_default.mtu
    /\ ByteAt(last.sent[1], 0) = OPEN_CONNECTION_REPLY_1
    /\ RepliedMtu = 46

\* What the handler does for those requests: the minimum, not raised.
Ocr1ReplyIsMin ==
    Ocr1Matching =>
        /\ Len(last.sent) = 1
        /\ ByteAt(last.sent[1], 0) = OPEN_CONNECTION_REPLY_1
        /\ RepliedMtu = NegotiatedMtu
        /\ RepliedMtu <= last.mtu

---------------------------------------------------------------------------
(* The address codec and ConnectionRequestAccepted                         *)

\* read_address at offset pos: Ok with the address and the offset after it,
\* or Err.
read_address(b, pos) ==
    LET remaining == BytesLen(b) - pos IN
    IF remaining < 1 THEN UnexpectedEof(1, remaining)
    ELSE IF ByteAt(b, pos) = 4
    THEN IF remaining - 1 < 4 + 2 THEN UnexpectedEof(6, remaining - 1)
         ELSE Ok([ addr |-> AddrV4(255 - ByteAt(b, pos + 1), 255 - ByteAt(b, pos + 2),
                                   255 - ByteAt(b, pos + 3), 255 - ByteAt(b, pos + 4),
                                   get_u16(b, pos + 5)),
                   next |-> pos + 7 ])
    ELSE IF ByteAt(b, pos) = 6
    THEN IF remaining - 1 < 2 + 2 + 4 + 16 + 4 THEN UnexpectedEof(28, remaining - 1)
         ELSE Ok([ addr |-> AddrV6(BytesSlice(b, pos + 9, 16), get_u16(b, pos + 3),
                                   BytesSlice(b, pos + 5, 4), BytesSlice(b, pos + 25, 4)),
                   next |-> pos + 29 ])
    ELSE Err("InvalidData")

\* n calls of read_address from offset pos on, the addresses dropped: Ok with
\* the offset after them, or the first Err.
RECURSIVE ReadAddresses(_, _, _)
ReadAddresses(b, pos, n) ==
    IF n = 0 THEN Ok(pos)
    ELSE LET r == read_address(b, pos)
         IN  IF r.ok THEN ReadAddresses(b, r.val.next, n - 1) ELSE r

\* read_i64_be at offset pos, for bytes that hold a value from 0 to 2^31 - 1.
read_i64_be(b, pos) ==
    IF BytesLen(b) - pos < 8 THEN UnexpectedEof(8, BytesLen(b) - pos)
    ELSE Ok(((ByteAt(b, pos + 4) * 256 + ByteAt(b, pos + 5)) * 256
             + ByteAt(b, pos + 6)) * 256 + ByteAt(b, pos + 7))

\* struct ConnectionRequestAccepted of the raknet crate
ConnectionRequestAccepted(client_address, system_index, request_timestamp, accepted_timestamp) ==
    [ client_address |-> client_address, system_index |-> system_index,
      request_timestamp |-> request_timestamp,
      accepted_timestamp |-> accepted_timestamp ]

\* ConnectionRequestAccepted::PADDING_ADDRESS
PADDING_ADDRESS == AddrV4(255, 255, 255, 255, 19132)

\* The for loop of encode_payload that writes n padding addresses.
RECURSIVE WritePaddingAddresses(_)
WritePaddingAddresses(n) ==
    IF n = 0 THEN <<>>
    ELSE BytesConcat(write_address(PADDING_ADDRESS), WritePaddingAddresses(n - 1))

\* ConnectionRequestAccepted::encode_payload
ConnectionRequestAccepted_encode_payload(p) ==
    BytesJoin(<< write_address(p.client_address), write_u16_be(p.system_index),
                 WritePaddingAddresses(10),
                 write_i64_be(p.request_timestamp), write_i64_be(p.accepted_timestamp) >>)

\* ConnectionRequestAccepted::decode_payload
ConnectionRequestAccepted_decode_payload(b) ==
    LET client_address == read_address(b, 0) IN
    IF ~client_address.ok THEN client_address
    ELSE IF BytesLen(b) - client_address.val.next < 2
    THEN UnexpectedEof(2, BytesLen(b) - client_address.val.next)
    ELSE
    LET system_index == get_u16(b, client_address.val.next)
        padding == ReadAddresses(b, client_address.val.next + 2, 20)
    IN  IF ~padding.ok THEN padding
        ELSE LET request_timestamp == read_i64_be(b, padding.val)
                 accepted_timestamp == read_i64_be(b, padding.val + 8)
             IN  IF ~request_timestamp.ok THEN request_timestamp
                 ELSE IF ~accepted_timestamp.ok THEN accepted_timestamp
                 ELSE Ok(ConnectionRequestAccepted(client_address.val.addr, system_index,
                                                   request_timestamp.val,
                                                   accepted_timestamp.val))

---------------------------------------------------------------------------
(* ConnectionRequestAccepted: what the session emits, and the codec        *)

\* Timestamps in milliseconds.
CraTimestamps == {0, 1, 4 * 16777216 + 6}

CraInputs ==
    { [ op |-> "input",
        packet |-> ConnectionRequestAccepted(a, i, rt, at) ] :
          a \in {AddrV4(127, 0, 0, 1, 19132), AddrV4(10, 0, 0, 2, 4), AddrV4(0, 0, 0, 0, 0)},
          i \in {0, 1, 1028}, rt \in CraTimestamps, at \in CraTimestamps }

\* encode_payload, then decode_payload on what it wrote.
CraRoundTrip ==
    /\ last.op = "input"
    /\ \E written \in {ConnectionRequestAccepted_encode_payload(last.packet)} :
           last' = [ op |-> "round_trip", packet |-> last.packet, written |-> written,
                     decoded |-> ConnectionRequestAccepted_decode_payload(written) ]
    /\ UNCHANGED <<rw, sh, sw, sess, env, clock, hist>>

\* The session is given a ConnectionRequest.
CraHandleConnectionRequest ==
    /\ sess.state = "Connecting"
    /\ \E s \in {handle_connection_request(SessOf)} :
           /\ sess' = SessFields(s)
           /\ sw' = s.sw
    /\ UNCHANGED <<rw, sh, env, clock, hist, last>>

CraNext == CraRoundTrip \/ CraHandleConnectionRequest

SpecCra == InitSession(SessionAddrs, CraInputs) /\ [][CraNext]_vars

\* The number of padding address slots of a ConnectionRequestAccepted given
\* with its id byte: the addresses between the system index and the last 16
\* bytes; -1 if those bytes are not a whole number of addresses.
PaddingSlots(b) ==
    LET client == read_address(b, 1)
        fits == { n \in 0 .. 40 :
                    client.ok /\ ReadAddresses(b, client.val.next + 2, n).ok
                    /\ ReadAddresses(b, client.val.next + 2, n).val = BytesLen(b) - 16 }
    IN  IF fits = {} THEN -1 ELSE CHOOSE n \in fits : TRUE

\* The payloads of ConnectionRequestAccepted in the send window's queue.
QueuedAccepted ==
    { sw.packet_queue[i].buffer : i \in
          { j \in DOMAIN sw.packet_queue :
                ByteAt(sw.packet_queue[j].buffer, 0) = CONNECTION_REQUEST_ACCEPTED } }

\* C25: every ConnectionRequestAccepted the session emits has exactly 20
\* padding address slots between the system index and the request time, and
\* what ConnectionRequestAccepted::encode_payload writes is decoded by
\* decode_payload to the same field values.
C25_TwentySlotsAndRoundTrip ==
    /\ \A payload \in QueuedAccepted : PaddingSlots(payload) = 20
    /\ last.op = "round_trip" => last.decoded = Ok(last.packet)

\* C25 witness: the session has queued a ConnectionRequestAccepted with 10
\* padding slots, and decode_payload has failed on the bytes encode_payload
\* wrote.
C25_Witness ==
    /\ sess.state = "Handshaking"
    /\ \E payload \in QueuedAccepted : PaddingSlots(payload) = 10
    /\ last.op = "round_trip"
    /\ PaddingSlots(BytesConcat(Fill(CONNECTION_REQUEST_ACCEPTED, 1), last.written)) = 10
    /\ ~last.decoded.ok

\* The decoder fails on every packet the encoder writes, and on what the
\* session emits.
CraDecodeAlwaysFails ==
    /\ last.op = "round_trip" => ~last.decoded.ok
    /\ \A payload \in QueuedAccepted :
           ~ConnectionRequestAccepted_decode_payload(
                BytesSlice(payload, 1, BytesLen(payload) - 1)).ok

---------------------------------------------------------------------------
(* raknet/mod.rs and protocol/mod.rs: the listener                         *)

UNCONNECTED_PING == 1

UNCONNECTED_PONG == 28

SESSION_CLEANUP_INTERVAL == 5000000

SESSION_TIMEOUT_DURATION == 30000000

\* One run of a byte string: n bytes of value b.
Run(b, n) == [byte |-> b, n |-> n]

\* RakNetServerConfig::default().advertisement:
\* "MCPE;Amethyst Server;11;1.20.0;0;10;0;Amethyst RakNet;Survival"
Advertisement ==
    << Run(77, 1), Run(67, 1), Run(80, 1), Run(69, 1), Run(59, 1),
       Run(65, 1), Run(109, 1), Run(101, 1), Run(116, 1), Run(104, 1),
       Run(121, 1), Run(115, 1), Run(116, 1), Run(32, 1), Run(83, 1),
       Run(101, 1), Run(114, 1), Run(118, 1), Run(101, 1), Run(114, 1),
       Run(59, 1), Run(49, 2), Run(59, 1), Run(49, 1), Run(46, 1),
       Run(50, 1), Run(48, 1), Run(46, 1), Run(48, 1), Run(59, 1),
       Run(48, 1), Run(59, 1), Run(49, 1), Run(48, 1), Run(59, 1),
       Run(48, 1), Run(59, 1), Run(65, 1), Run(109, 1), Run(101, 1),
       Run(116, 1), Run(104, 1), Run(121, 1), Run(115, 1), Run(116, 1),
       Run(32, 1), Run(82, 1), Run(97, 1), Run(107, 1), Run(78, 1),
       Run(101, 1), Run(116, 1), Run(59, 1), Run(83, 1), Run(117, 1),
       Run(114, 1), Run(118, 1), Run(105, 1), Run(118, 1), Run(97, 1),
       Run(108, 1) >>

\* handle_unconnected_ping: the packets it sends to src_addr.
handle_unconnected_ping(data, server_guid) ==
    IF BytesLen(data) < 1 + 8 + 16 THEN <<>>
    ELSE IF BytesSlice(data, 9, 16) /= OFFLINE_MESSAGE_DATA_ID THEN <<>>
    ELSE << BytesJoin(<< Fill(UNCONNECTED_PONG, 1), BytesSlice(data, 1, 8),
                         write_i64_be(server_guid), OFFLINE_MESSAGE_DATA_ID,
                         write_u16_be(BytesLen(Advertisement)), Advertisement >>) >>

\* The test of the connection limit one too late: what the bound of the
\* registry rests on.
AtConnectionLimitOffByOne(sessions_map, config) ==
    Cardinality(DOMAIN sessions_map) > config.max_connections

\* handle_open_connection_request_2: the check of the connection limit.
AtConnectionLimit(sessions_map, config) ==
    Cardinality(DOMAIN sessions_map) >= config.max_connections

\* handle_open_connection_request_2: the registry afterwards and the packets
\* sent to src_addr. send_ok tells whether the socket's send_to succeeds.
handle_open_connection_request_2(sessions, src_addr, data, server_guid, config, now, send_ok) ==
    LET ignored == [sessions |-> sessions, sent |-> <<>>]
        server_addr == read_address(data, 1 + 16)
    IN  IF BytesLen(data) < 1 + 16 THEN ignored
        ELSE IF BytesSlice(data, 1, 16) /= OFFLINE_MESSAGE_DATA_ID THEN ignored
        ELSE IF ~server_addr.ok THEN ignored
        ELSE IF BytesLen(data) - server_addr.val.next < 2 THEN ignored
        ELSE IF ~read_i64_be(data, server_addr.val.next + 2).ok THEN ignored
        ELSE
        LET mtu_size == get_u16(data, server_addr.val.next)
            reply == BytesJoin(<< Fill(OPEN_CONNECTION_REPLY_2, 1),
                                  OFFLINE_MESSAGE_DATA_ID, write_i64_be(server_guid),
                                  write_address(src_addr), write_u16_be(mtu_size),
                                  Fill(0, 1) >>)
        IN  IF mtu_size < MIN_MTU_SIZE \/ mtu_size > config.mtu THEN ignored
            ELSE IF ~send_ok THEN ignored
            ELSE IF MapHas(sessions, src_addr)
            THEN [sessions |-> sessions, sent |-> <<reply>>]
            ELSE IF AtConnectionLimit(sessions, config)
            THEN [sessions |-> sessions, sent |-> <<reply>>]
            ELSE [ sessions |-> MapPut(sessions, src_addr,
                                       RakNetSession_new(src_addr, mtu_size, now)),
                   sent |-> <<reply>> ]

\* RakNetServer::handle_incoming_packet. data is what handle_incoming takes,
\* with the bytes themselves in data.raw for a packet that is neither an ACK,
\* a NACK nor a datagram.
handle_incoming_packet(sessions, data, src_addr, server_guid, config, now, send_ok) ==
    IF data.empty THEN [sessions |-> sessions, sent |-> <<>>, payloads |-> <<>>]
    ELSE IF MapHas(sessions, src_addr)
    THEN LET r == handle_incoming(sessions[src_addr], data, now)
         IN  [ sessions |-> MapPut(sessions, src_addr, r.s), sent |-> <<>>,
               payloads |-> r.payloads ]
    ELSE IF data.id = UNCONNECTED_PING
    THEN [ sessions |-> sessions, payloads |-> <<>>,
           sent |-> handle_unconnected_ping(data.raw, server_guid) ]
    ELSE IF data.id = OPEN_CONNECTION_REQUEST_1
    THEN [ sessions |-> sessions, payloads |-> <<>>,
           sent |-> handle_open_connection_request_1(src_addr.v = 4, data.raw,
                                                     server_guid, config) ]
    ELSE IF data.id = OPEN_CONNECTION_REQUEST_2
    THEN LET r == handle_open_connection_request_2(sessions, src_addr, data.raw,
                                                   server_guid, config, now, send_ok)
         IN  [sessions |-> r.sessions, sent |-> r.sent, payloads |-> <<>>]
    ELSE [sessions |-> sessions, sent |-> <<>>, payloads |-> <<>>]

\* The loop body of tick_sessions for one session: the session after its
\* tick and what it wrote to the socket.
TickSession(s, now) ==
    CHOOSE out \in { [s |-> [s EXCEPT !.rw = r.rw, !.sw = r.sw], wire |-> r.wire] :
                         r \in {RakNetSession_tick(s.rw, s.sw, now, 0)} } : TRUE

\* The registry and the writes of a round of ticks, from the result of each.
TickedRegistry(ticked) ==
    [ sessions |-> [addr \in DOMAIN ticked |-> ticked[addr].s],
      wire |-> [addr \in DOMAIN ticked |-> ticked[addr].wire] ]

\* RakNetServer::tick_sessions: every session ticked; wire is what each one
\* wrote to the socket.
tick_sessions(sessions, now) ==
    TickedRegistry([addr \in DOMAIN sessions |-> TickSession(sessions[addr], now)])

\* RakNetSession::is_timed_out
is_timed_out(s, now, timeout_duration) ==
    s.state /= "Disconnected" /\ now - s.last_activity > timeout_duration

\* RakNetSession::is_disconnected
is_disconnected(s) == s.state = "Disconnected"

\* The closure of cleanup_sessions after it holds the session: should_keep.
should_keep(s, now) ==
    ~is_timed_out(s, now, SESSION_TIMEOUT_DURATION) /\ ~is_disconnected(s)

\* RakNetServer::cleanup_sessions. The closure given to retain takes each
\* session with Mutex::blocking_lock, which panics when it is called from
\* within an asynchronous execution context; in_async tells whether the
\* caller is one. The closure runs once for every session, so with an
\* empty registry nothing is locked.
cleanup_sessions(sessions, now, in_async) ==
    IF DOMAIN sessions /= {} /\ in_async
    THEN [sessions |-> sessions, panicked |-> TRUE]
    ELSE [ sessions |-> [ addr \in { a \in DOMAIN sessions : should_keep(sessions[a], now) }
                            |-> sessions[addr] ],
           panicked |-> FALSE ]

---------------------------------------------------------------------------
(* The run loop of the listener                                            *)

\* config.max_connections of the listener under test.
ListenerMaxConnections == 1

\* How often the clock moves, and by how much: more than a sweep interval,
\* twice is more than the session timeout and a sweep interval.
ListenerMaxAdvances == 2

ListenerClockStep == 18000000

ListenerConfig ==
    [RakNetServerConfig_default EXCEPT !.max_connections = ListenerMaxConnections]

\* The remote addresses: one more than the listener has room for.
ListenerAddrs == { AddrV4(10, 0, 0, k, 19132) : k \in 1 .. (ListenerMaxConnections + 1) }

\* An OpenConnectionRequest2: the id, the magic, the server's address, the
\* MTU, the client GUID.
Ocr2Bytes(mtu) ==
    BytesJoin(<< Fill(OPEN_CONNECTION_REQUEST_2, 1), OFFLINE_MESSAGE_DATA_ID,
                 write_address(AddrV4(10, 0, 0, 0, 19132)), write_u16_be(mtu),
                 write_i64_be(1) >>)

\* An UnconnectedPing: the id, the ping time, the magic, the client GUID.
PingBytes ==
    BytesJoin(<< Fill(UNCONNECTED_PING, 1), write_i64_be(5), OFFLINE_MESSAGE_DATA_ID,
                 write_i64_be(1) >>)

\* What the remote addresses send while sessions are set up and ended.
HandshakeInputs ==
    { RawBytes(PingBytes),
      RawBytes(Ocr2Bytes(RakNetServerConfig_default.mtu)),
      RawBytes(Ocr2Bytes(MIN_MTU_SIZE - 1)),
      RawBytes(DisconnectNotificationBytes) }

\* What they send in the life of a session.
ListenerInputs ==
    { RawBytes(PingBytes),
      RawBytes(Ocr2Bytes(RakNetServerConfig_default.mtu)),
      RawBytes(ConnectionRequestBytes),
      RawBytes(NewIncomingConnectionBytes),
      RawBytes(DisconnectNotificationBytes),
      DatagramBytes(Ok(RecvDatagram(0, <<ReliableCarrier(Fill(0, 1))>>))) }

\* The listener after bind, when run starts: no session, last_cleanup now.
ListenerEnv == [sessions |-> EmptyMap, last_cleanup |-> 0, panicked |-> FALSE]

InitListener ==
    /\ rw = ReceiveWindow_new
    /\ sh = SplitPacketHandler_new
    /\ sw = SendWindow_new(Mtu, 0)
    /\ sess = SessFields(RakNetSession_new(PeerAddress, Mtu, 0))
    /\ env = ListenerEnv
    /\ clock = 0
    /\ hist = HistInit
    /\ last = NoCall

\* run, the branch of select! for a datagram that recv_from returns before
\* the sleep of this iteration has elapsed; the datagram is one of inputs.
\* Only the OpenConnectionRequest2 handler looks at the result of send_to.
RunRecvOf(inputs) ==
    /\ ~env.panicked
    /\ \E src_addr \in ListenerAddrs, data \in inputs :
        \E send_ok \in (IF data.id = OPEN_CONNECTION_REQUEST_2 THEN BOOLEAN ELSE {TRUE}) :
        \E r \in {handle_incoming_packet(env.sessions, data, src_addr, ServerGuid,
                                         ListenerConfig, clock, send_ok)} :
            /\ env' = [env EXCEPT !.sessions = r.sessions]
            /\ last' = [ op |-> "recv", src_addr |-> src_addr, id |-> data.id,
                         known |-> MapHas(env.sessions, src_addr),
                         sent |-> r.sent, payloads |-> r.payloads ]
            /\ UNCHANGED <<rw, sh, sw, sess, clock, hist>>

RunHandshake == RunRecvOf(HandshakeInputs)

RunRecv == RunRecvOf(ListenerInputs)

\* run, the branch of select! for the sleep of 10 ms that elapses before a
\* datagram arrives: tick_sessions, and cleanup_sessions when the sweep
\* interval has passed.
RunTick ==
    /\ ~env.panicked
    /\ \E t \in {tick_sessions(env.sessions, clock)} :
        IF clock - env.last_cleanup >= SESSION_CLEANUP_INTERVAL
        THEN \E c \in {cleanup_sessions(t.sessions, clock, TRUE)} :
               /\ env' = [env EXCEPT !.sessions = c.sessions,
                                     !.panicked = c.panicked,
                                     !.last_cleanup = IF c.panicked THEN @ ELSE clock]
               /\ last' = [ op |-> "tick", wire |-> t.wire, sweep |-> TRUE,
                            removed |-> (DOMAIN t.sessions) \ (DOMAIN c.sessions) ]
        ELSE /\ env' = [env EXCEPT !.sessions = t.sessions]
             /\ last' = [ op |-> "tick", wire |-> t.wire, sweep |-> FALSE,
                          removed |-> {} ]
    /\ hist' = [hist EXCEPT !.ticks = 1 - @]
    /\ UNCHANGED <<rw, sh, sw, sess, clock>>

ListenerAdvanceClock ==
    /\ clock < ListenerMaxAdvances * ListenerClockStep
    /\ clock' = clock + ListenerClockStep
    /\ UNCHANGED <<rw, sh, sw, sess, env, hist, last>>

ListenerNext == RunHandshake \/ RunTick \/ ListenerAdvanceClock

SpecListener == InitListener /\ [][ListenerNext]_vars

\* C23: the registry never holds more than max_connections sessions; a
\* datagram from an address that has a session creates no further session;
\* and an OpenConnectionRequest2 from a new address that arrives while the
\* registry holds max_connections sessions leaves the registry as it is.
C23_RegistryBounded ==
    [][ /\ Cardinality(DOMAIN env'.sessions) <= ListenerConfig.max_connections
        /\ (last'.op = "recv" /\ MapHas(env.sessions, last'.src_addr))
               => DOMAIN env'.sessions = DOMAIN env.sessions
        /\ (/\ last'.op = "recv"
            /\ last'.id = OPEN_CONNECTION_REQUEST_2
            /\ ~MapHas(env.sessions, last'.src_addr)
            /\ Cardinality(DOMAIN env.sessions) >= ListenerConfig.max_connections)
               => env'.sessions = env.sessions ]_vars

\* C23 witness: the registry is full, and a well-formed OpenConnectionRequest2
\* from an address without a session has just been answered without a session
\* being created.
C23_Witness ==
    /\ last.op = "recv"
    /\ last.id = OPEN_CONNECTION_REQUEST_2
    /\ ~last.known
    /\ last.sent /= <<>>
    /\ ~MapHas(env.sessions, last.src_addr)
    /\ Cardinality(DOMAIN env.sessions) = ListenerConfig.max_connections

LoopNext == RunRecv \/ RunTick \/ ListenerAdvanceClock


\* The run loop with the sleep branch taken again and again as long as the
\* loop runs, and time passing.
SpecListenerTicking ==
    /\ InitListener
    /\ [][LoopNext]_vars
    /\ ([]<>(env.panicked) \/ []<><<RunTick>>_vars)
    /\ WF_vars(ListenerAdvanceClock)

\* The addresses whose session has been idle for more than d.
IdleFor(d) ==
    { a \in DOMAIN env.sessions : clock - env.sessions[a].last_activity > d }

\* C22: a session whose peer has been silent for more than 30 s is eventually
\* removed from the registry by a cleanup sweep (or the peer is heard again);
\* a session that is neither Disconnected nor idle for more than 30 s is
\* never removed; a datagram from an address without a session is handled
\* as one from an unknown address.
C22_IdleSessionRemoved ==
    /\ \A a \in ListenerAddrs :
           (a \in IdleFor(SESSION_TIMEOUT_DURATION))
               ~> (a \notin IdleFor(SESSION_TIMEOUT_DURATION))
    /\ [][ /\ \A a \in (DOMAIN env.sessions) \ (DOMAIN env'.sessions) :
                 \/ env.sessions[a].state = "Disconnected"
                 \/ clock - env.sessions[a].last_activity > SESSION_TIMEOUT_DURATION
           /\ (last'.op = "recv" /\ ~MapHas(env.sessions, last'.src_addr))
                 => (~last'.known /\ last'.payloads = <<>>) ]_vars

\* C22 witness: the first sweep with a session in the registry has ended the
\* run loop; the session is still registered after more than 30 s and a
\* sweep interval without a datagram from its peer.
C22_Witness ==
    /\ env.panicked
    /\ last.op = "tick"
    /\ last.sweep
    /\ IdleFor(SESSION_TIMEOUT_DURATION + SESSION_CLEANUP_INTERVAL) /= {}

\* Sessions are never removed at all.
ListenerNeverRemoves == [][DOMAIN env.sessions \subseteq DOMAIN env'.sessions]_vars

---------------------------------------------------------------------------
(* The run loop under any arrival pattern                                  *)

BurstNext == RunRecv \/ RunTick

\* The loop never blocks while it runs: in every iteration a datagram is
\* ready or the sleep elapses, and which of the two is the arrival pattern's
\* choice. Time passes.
SpecListenerLoop ==
    /\ InitListener
    /\ [][LoopNext]_vars
    /\ ([]<>(env.panicked) \/ []<><<BurstNext>>_vars)
    /\ WF_vars(ListenerAdvanceClock)

\* The session of address a holds sequence numbers it has not acknowledged.
PendingAck(a) == MapHas(env.sessions, a) /\ env.sessions[a].rw.ack_queue /= <<>>

\* C30: whatever the arrival pattern, the tick branch of the run loop is
\* eventually taken: a session with a pending ACK eventually has emitted it.
C30_TickEventuallyTaken ==
    \A a \in ListenerAddrs : PendingAck(a) ~> ~PendingAck(a)

\* C30 witness: a datagram from another address has been handled while the
\* ACK for an earlier datagram was pending.
C30_Witness ==
    /\ last.op = "recv"
    /\ \E a \in ListenerAddrs : PendingAck(a) /\ last.src_addr /= a

---------------------------------------------------------------------------
(* Sequenced packets in the receive window: datagrams arrive in order,     *)
(* each with one sequenced or ordered packet of channel 0.                 *)

SeqMaxDatagrams == 4

MaxSequenceIndex == 2

\* A sequenced packet: its own sequence index, and the order index of its
\* channel that the sender puts next to it.
SequencedAt(ch, si, oi) ==
    EncapsulatedPacket("UnreliableSequenced", FALSE, None, Some(si), Some(oi), Some(ch),
                       None, None, None, Fill(si + 1, 1), None)

SeqPool ==
    { SequencedAt(0, si, oi) : si \in 0 .. MaxSequenceIndex, oi \in 0 .. MaxOrder }
    \cup { OrderedPacket(0, oi) : oi \in 0 .. MaxOrder }

\* The packets of ready that are sequenced and of channel c.
RECURSIVE SequencedOf(_, _)
SequencedOf(ready, c) ==
    IF ready = <<>> THEN <<>>
    ELSE (IF is_sequenced(Head(ready).reliability) /\ Head(ready).order_channel = Some(c)
          THEN <<Head(ready)>> ELSE <<>>) \o SequencedOf(Tail(ready), c)

SequenceIndicesOf(ready, c) ==
    { Unwrap(SequencedOf(ready, c)[i].sequence_index) :
          i \in DOMAIN SequencedOf(ready, c) }

\* ReceiveWindow::handle_datagram for the next datagram in order.
SeqHandleDatagram ==
    /\ rw.expected_sequence_number < SeqMaxDatagrams
    /\ \E packet \in SeqPool :
        \E r \in {ReceiveWindow_handle_datagram(
                      rw, RecvDatagram(rw.expected_sequence_number, <<packet>>))} :
            /\ rw' = r.rw
            /\ last' = [ op |-> "handle_datagram", seq |-> rw.expected_sequence_number,
                         packet |-> packet, ret |-> r.ret, accepted |-> r.accepted ]
            /\ hist' = [hist EXCEPT
                   !.delivered = [c \in Channels |->
                                     @[c] \o OrderIndicesOf(ReadyOf(r.ret), c)],
                   !.sequenced = [c \in Channels |->
                                     @[c] \cup SequenceIndicesOf(ReadyOf(r.ret), c)]]
            /\ UNCHANGED <<sess, env, sh, sw, clock>>

SeqNext == SeqHandleDatagram \/ RecvCreateAck

SpecRecvSequenced == Init /\ [][SeqNext]_vars

\* The sequenced packets the ordering queue of channel c holds back.
HeldSequenced(w, c) ==
    IF MapHas(w.ordering_queues, c)
    THEN { oi \in DOMAIN w.ordering_queues[c] :
               is_sequenced(w.ordering_queues[c][oi].reliability) }
    ELSE {}

\* C31: a sequenced packet is returned upstream only if its sequence index is
\* above every sequence index returned on its channel before; no sequenced
\* packet is held back in an ordering queue; and receiving a sequenced packet
\* leaves the next expected order index of its channel as it was.
C31_SequencedDelivery ==
    [][ last'.op = "handle_datagram" =>
            \A c \in Channels :
                /\ \A si \in SequenceIndicesOf(ReadyOf(last'.ret), c) :
                       \A seen \in hist.sequenced[c] : si > seen
                /\ HeldSequenced(rw', c) = {}
                /\ (is_sequenced(last'.packet.reliability)
                        /\ last'.packet.order_channel = Some(c))
                       => NextOrderIndex(rw', c) = NextOrderIndex(rw, c) ]_vars

\* C31 witness: a sequenced packet arrived in an accepted datagram, nothing
\* was returned, and the packet waits in the ordering queue of its channel.
C31_Witness ==
    /\ last.op = "handle_datagram"
    /\ last.accepted
    /\ is_sequenced(last.packet.reliability)
    /\ last.ret = None
    /\ Unwrap(last.packet.order_index) \in HeldSequenced(rw, 0)

\* What the code does with a sequenced packet: the rule of the ordered ones,
\* by order index, whatever the sequence index is.
SequencedByOrderIndex ==
    [][ (last'.op = "handle_datagram" /\ is_sequenced(last'.packet.reliability)) =>
            LET oi == Unwrap(last'.packet.order_index)
                next == NextOrderIndex(rw, 0)
            IN  /\ oi = next =>
                       /\ last'.packet \in Range(ReadyOf(last'.ret))
                       /\ NextOrderIndex(rw', 0) > next
                /\ oi > next =>
                       /\ last'.ret = None
                       /\ oi \in HeldSequenced(rw', 0)
                /\ oi < next => (last'.ret = None /\ rw'.ordering_queues = rw.ordering_queues)
      ]_vars

---------------------------------------------------------------------------
(* queue_packet with every reliability, and the datagrams built from the   *)
(* queue                                                                   *)

QueueMaxPackets == 3

\* The channel argument: none, or channel 1.
QueueChannels == {None, Some(1)}

QueueAnyPacket ==
    /\ hist.queued < QueueMaxPackets
    /\ \E reliability \in ReliabilityValues, channel \in QueueChannels :
        \E r \in {queue_packet(sw, Fill(hist.queued, SmallLen), reliability, channel)} :
            /\ sw' = r.sw
            /\ last' = [ op |-> "queue_packet", reliability |-> reliability,
                         channel |-> IF IsSome(channel) THEN Unwrap(channel) ELSE 0,
                         ret |-> r.ret ]
            /\ hist' = [hist EXCEPT !.queued = @ + 1]
            /\ UNCHANGED <<sess, env, rw, sh, clock>>

\* get_next_datagram, and Datagram::encode of what it returns as the session
\* calls it before the write.
QueueGetNextDatagram ==
    \E r \in {get_next_datagram(sw, clock)} :
        /\ sw' = r.sw
        /\ last' = [ op |-> "get_next_datagram", ret |-> r.ret, kind |-> r.kind,
                     encoded |-> IF IsSome(r.ret) THEN Datagram_encode(Unwrap(r.ret))
                                 ELSE Ok(0) ]
        /\ UNCHANGED <<sess, env, rw, sh, clock, hist>>

QueueNext == QueueAnyPacket \/ SendAssignAckId \/ QueueGetNextDatagram

SpecQueue == Init /\ [][QueueNext]_vars

SendOrderIndex(w, ch) ==
    IF MapHas(w.next_order_indices, ch) THEN w.next_order_indices[ch] ELSE 0

\* The packet has every index that the wire format of its reliability holds.
HasWireIndices(p) ==
    /\ is_reliable(p.reliability) => IsSome(p.message_index)
    /\ is_sequenced(p.reliability) => IsSome(p.sequence_index)
    /\ needs_ordering_info(p.reliability) =>
           (IsSome(p.order_index) /\ IsSome(p.order_channel))

\* The same without the sequence index.
HasWireIndicesButSequence(p) ==
    /\ is_reliable(p.reliability) => IsSome(p.message_index)
    /\ needs_ordering_info(p.reliability) =>
           (IsSome(p.order_index) /\ IsSome(p.order_channel))

\* C32: the packet that queue_packet queues has every index its reliability
\* needs on the wire; the order index of its channel advances for the ordered
\* reliabilities and for no other; and every datagram that get_next_datagram
\* builds from the queue encodes.
C32_QueuedPacketEncodes ==
    [][ /\ last'.op = "queue_packet" =>
               /\ HasWireIndices(sw'.packet_queue[Len(sw'.packet_queue)])
               /\ \A ch \in Channels :
                      SendOrderIndex(sw', ch) =
                          IF ch = last'.channel /\ is_ordered(last'.reliability)
                          THEN SendOrderIndex(sw, ch) + 1
                          ELSE SendOrderIndex(sw, ch)
        /\ (last'.op = "get_next_datagram" /\ IsSome(last'.ret)) => last'.encoded.ok
      ]_vars

\* C32 witness: get_next_datagram has returned a datagram with a sequenced
\* packet, and Datagram::encode of it fails.
C32_Witness ==
    /\ last.op = "get_next_datagram"
    /\ IsSome(last.ret)
    /\ \E i \in DOMAIN Unwrap(last.ret).packets :
           is_sequenced(Unwrap(last.ret).packets[i].reliability)
    /\ ~last.encoded.ok

\* What the code meets: every index but the sequence index is set, the order
\* index advances for the ordered reliabilities only, and a datagram fails to
\* encode exactly when it carries a sequenced packet.
QueuedAllButSequenceIndex ==
    [][ /\ last'.op = "queue_packet" =>
               /\ HasWireIndicesButSequence(sw'.packet_queue[Len(sw'.packet_queue)])
               /\ sw'.packet_queue[Len(sw'.packet_queue)].sequence_index = None
               /\ \A ch \in Channels :
                      SendOrderIndex(sw', ch) =
                          IF ch = last'.channel /\ is_ordered(last'.reliability)
                          THEN SendOrderIndex(sw, ch) + 1
                          ELSE SendOrderIndex(sw, ch)
        /\ (last'.op = "get_next_datagram" /\ IsSome(last'.ret)) =>
               (last'.encoded.ok <=>
                    \A i \in DOMAIN Unwrap(last'.ret).packets :
                        ~is_sequenced(Unwrap(last'.ret).packets[i].reliability))
      ]_vars

---------------------------------------------------------------------------
(* NACKs for sequences that are pending, marked, acknowledged or never     *)
(* sent                                                                    *)

NackMaxPackets == 3

\* What a NACK names: one sequence, a range, or a sequence never sent.
NackRecordInputs ==
    { <<Single(0)>>, <<Single(1)>>, <<RangeRec(0, 1)>>, <<Single(NackMaxPackets)>> }

\* queue_packet of a payload of two thirds of the window's MTU.
NackQueuePacket ==
    /\ hist.queued < NackMaxPackets
    /\ \E r \in {queue_packet(sw, Fill(0, ((2 * sw.mtu) \div 3) - 20), "ReliableOrdered",
                               Some(0))} :
           /\ sw' = r.sw
           /\ last' = [op |-> "queue_packet"]
           /\ hist' = [hist EXCEPT !.queued = @ + 1]
    /\ UNCHANGED <<sess, env, rw, sh, clock>>

NackHandleNack ==
    \E records \in NackRecordInputs :
        /\ sw' = handle_nack(sw, records)
        /\ last' = [op |-> "handle_nack", records |-> records]
        /\ UNCHANGED <<sess, env, rw, sh, clock, hist>>

NackNext ==
    \/ NackQueuePacket
    \/ SendAssignAckId
    \/ SendGetNextDatagram
    \/ SendHandleAck
    \/ NackHandleNack

\* The MTUs of the windows: the smallest one a session is made with, and the
\* default one.
NackMtus == {MIN_MTU_SIZE, Mtu}

\* The state after SendWindow::new for one of the MTUs.
InitNack ==
    /\ rw = ReceiveWindow_new
    /\ sh = SplitPacketHandler_new
    /\ \E mtu \in NackMtus : sw = SendWindow_new(mtu, 0)
    /\ sess = SessFields(RakNetSession_new(PeerAddress, Mtu, 0))
    /\ env = NoEnv
    /\ clock = 0
    /\ last = NoCall
    /\ hist = HistInit

SpecNack == InitNack /\ [][NackNext]_vars

\* The sequences a NACK names that are pending and not yet marked.
NewlyMarked(w, records) ==
    { seq \in extract_sequence_numbers(records) :
          MapHas(w.pending_datagrams, seq) /\ seq \notin w.resend_queue }

\* The frame of a NACK that marks nothing.
NackWithoutEffect(w, w2) ==
    /\ w2.cwnd = w.cwnd
    /\ w2.ssthresh = w.ssthresh
    /\ w2.resend_queue = w.resend_queue
    /\ w2.bytes_in_flight = w.bytes_in_flight

\* A floor of about one MTU: from half an MTU to two MTUs.
AboutOneMtu(mtu) == (mtu \div 2) .. (2 * mtu)

NackCutAboveFloor ==
    /\ last.op = "handle_nack"
    /\ extract_sequence_numbers(last.records) \cap sw.resend_queue /= {}
    /\ sw.mtu = Mtu
    /\ sw.ssthresh > MIN_CWND_BYTES
    /\ sw.cwnd = sw.ssthresh

---------------------------------------------------------------------------
(* ACKs for sequences that are pending, acknowledged before or never sent  *)

AgainHandleAck ==
    \E records \in NackRecordInputs :
        /\ sw' = handle_ack(sw, records, clock)
        /\ last' = [ op |-> "handle_ack", records |-> records,
                     first |-> extract_sequence_numbers(records)
                                   \cap DOMAIN sw.pending_datagrams ]
        /\ hist' = [hist EXCEPT
               !.acked = @ \cup (extract_sequence_numbers(records)
                                 \cap DOMAIN sw.pending_datagrams)]
        /\ UNCHANGED <<sess, env, rw, sh, clock>>

AgainNext ==
    \/ NackQueuePacket
    \/ SendAssignAckId
    \/ SendGetNextDatagram
    \/ AgainHandleAck
    \/ NackHandleNack
    \/ SendAdvanceClock

SpecAckAgain == Init /\ [][AgainNext]_vars

\* What an ACK without effect leaves alone.
AckWithoutEffect(w, w2) ==
    /\ w2.pending_datagrams = w.pending_datagrams
    /\ w2.bytes_in_flight = w.bytes_in_flight
    /\ w2.cwnd = w.cwnd
    /\ w2.ssthresh = w.ssthresh
    /\ w2.srtt = w.srtt
    /\ w2.rtt_var = w.rtt_var
    /\ w2.rto = w.rto

\* C34: an ACK removes the pending sequences it names, subtracts their sizes
\* from bytes_in_flight, samples the round trip time and grows CWND; an ACK
\* that names only sequences acknowledged before or never sent leaves the
\* unacknowledged map, bytes_in_flight, CWND, SSTHRESH, SRTT, RTTVAR and RTO
\* as they were; so the same ACK processed a second time changes none of them.
C34_AckIdempotent ==
    [][ last'.op = "handle_ack" =>
            LET first == extract_sequence_numbers(last'.records)
                             \cap DOMAIN sw.pending_datagrams
            IN  /\ DOMAIN sw'.pending_datagrams = (DOMAIN sw.pending_datagrams) \ first
                /\ first = {} => AckWithoutEffect(sw, sw')
                /\ first /= {} =>
                       /\ sw'.bytes_in_flight
                              = sw.bytes_in_flight - SumCongestionSize(sw, first)
                       /\ sw'.cwnd > sw.cwnd
                       /\ IsSome(sw'.srtt)
                /\ AckWithoutEffect(sw', handle_ack(sw', last'.records, clock))
      ]_vars

\* C34 witness: an ACK for a sequence that an earlier ACK had removed has been
\* processed, in congestion avoidance, while another datagram is in flight.
C34_Witness ==
    /\ last.op = "handle_ack"
    /\ last.first = {}
    /\ extract_sequence_numbers(last.records) \subseteq hist.acked
    /\ sw.cwnd >= sw.ssthresh
    /\ sw.bytes_in_flight > 0

---------------------------------------------------------------------------
(* ACKs that do not reach the peer: the peer sends datagrams in order and  *)
(* retransmits each one until an ACK for it arrives; the session ticks; an *)
(* ACK may fail to be written, or be lost on the network.                  *)

ReAckMaxSeq == 3

\* How many ACK packets fail to be written or are lost.
ReAckMaxFaults == 1

\* sent: the sequences the peer has sent; peer_acked: those an ACK for which
\* has reached the peer; lost: those an ACK for which was dropped; reacked:
\* those written in an ACK again after that.
ReAckEnv == [sent |-> {}, peer_acked |-> {}, lost |-> {}, reacked |-> {}, faults |-> 0]

InitReAck ==
    /\ rw = ReceiveWindow_new
    /\ sh = SplitPacketHandler_new
    /\ sw = SendWindow_new(Mtu, 0)
    /\ sess = SessFields(RakNetSession_new(PeerAddress, Mtu, 0))
    /\ env = ReAckEnv
    /\ clock = 0
    /\ hist = HistInit
    /\ last = NoCall

\* The session's handle_datagram for datagram seq.
ReAckHandle(seq, retransmission) ==
    \E r \in {RakNetSession_handle_datagram(
                  rw, sh, RecvDatagram(seq, <<PlainPacket(0)>>), clock)} :
        /\ rw' = r.rw
        /\ sh' = r.sh
        /\ last' = [ op |-> "session_handle_datagram", seq |-> seq,
                     retransmission |-> retransmission, accepted |-> r.accepted ]
        /\ env' = [env EXCEPT !.sent = @ \cup {seq}]
        /\ UNCHANGED <<sw, sess, clock, hist>>

\* The peer's next datagram arrives.
ReAckFirstCopy ==
    /\ Cardinality(env.sent) < ReAckMaxSeq
    /\ ReAckHandle(Cardinality(env.sent), FALSE)

\* Another copy of a datagram that the peer holds unacknowledged arrives.
ReAckRetransmission ==
    \E seq \in env.sent \ env.peer_acked : ReAckHandle(seq, TRUE)

\* RakNetSession::tick. fault: the first socket write of the tick fails
\* ("write"), or the ACK packet it wrote is lost on its way ("network").
ReAckSessTick ==
    \E fault \in (IF env.faults < ReAckMaxFaults /\ rw.ack_queue /= <<>>
                  THEN {"none", "write", "network"} ELSE {"none"}) :
        \E r \in {RakNetSession_tick(rw, sw, clock, IF fault = "write" THEN 1 ELSE 0)} :
            /\ rw' = r.rw
            /\ sw' = r.sw
            /\ last' = [ op |-> "session_tick", ok |-> r.ok,
                         acked |-> AckedOnWire(r.wire) ]
            /\ env' = [env EXCEPT
                   !.peer_acked = IF fault = "none" THEN @ \cup AckedOnWire(r.wire) ELSE @,
                   !.lost = IF fault = "none" THEN @ ELSE @ \cup Range(rw.ack_queue),
                   !.reacked = @ \cup (AckedOnWire(r.wire) \cap env.lost),
                   !.faults = IF fault = "none" THEN @ ELSE @ + 1]
            /\ hist' = [hist EXCEPT !.ticks = 1 - @,
                                    !.ackSent = @ \cup AckedOnWire(r.wire)]
            /\ UNCHANGED <<sh, sess, clock>>

ReAckNext == ReAckFirstCopy \/ ReAckRetransmission \/ ReAckSessTick

\* The server ticks the session again and again, and the peer keeps
\* retransmitting what it holds unacknowledged.
SpecReAck ==
    /\ InitReAck
    /\ [][ReAckNext]_vars
    /\ []<><<ReAckSessTick>>_vars
    /\ WF_vars(ReAckRetransmission)

\* C35: when the ACK that covered sequence s was dropped and the peer's
\* retransmission of datagram s arrives, the session later writes another
\* ACK that contains s.
C35_RetransmissionReAcked ==
    \A s \in 0 .. (ReAckMaxSeq - 1) :
        ( /\ s \in env.lost
          /\ last.op = "session_handle_datagram"
          /\ last.seq = s
          /\ last.retransmission )
            ~> (s \in env.reacked)

\* C35 witness: the ACK for sequence 0 was dropped, the ticks since then
\* wrote the ACK for sequence 1, and the retransmission of datagram 0 has just
\* been handled: it was not accepted and the ACK queue is empty.
C35_Witness ==
    /\ 0 \in env.lost
    /\ 1 \in env.peer_acked
    /\ last.op = "session_handle_datagram"
    /\ last.seq = 0
    /\ last.retransmission
    /\ ~last.accepted
    /\ rw.ack_queue = <<>>

\* What the code does: a retransmission changes nothing in the receive
\* window, and no sequence is ever written in an ACK a second time.
RetransmissionIgnored ==
    /\ [][ (last'.op = "session_handle_datagram" /\ last'.retransmission) =>
               (~last'.accepted /\ rw' = rw) ]_vars
    /\ [](env.reacked = {})

---------------------------------------------------------------------------
(* Fragments that handle_packet refuses, while a reassembly is in progress *)

\* A fragment of the message split_id 0 with one of its split fields missing.
FragmentWithout(field) ==
    [Fragment(0, SplitN, 0) EXCEPT ![field] = None]

\* The fragments of message 0, the fragments that are refused whatever the
\* handler tracks, a fragment with another count for split id 0, and the
\* first fragment of a split id that the handler does not track.
ErrPool(h) ==
    { Fragment(0, SplitN, i) : i \in 0 .. (SplitN - 1) }
    \cup { FragmentWithout("split_id"), FragmentWithout("split_count"),
           FragmentWithout("split_index"),
           Fragment(0, 0, 0), Fragment(0, MAX_SPLIT_PARTS + 1, 0),
           Fragment(0, SplitN, SplitN), Fragment(0, SplitN - 1, 0),
           Fragment(FreshSplitId(h), SplitN, 0) }

ErrHandlePacket ==
    /\ hist.queued < MAX_CONCURRENT_SPLITS + SplitExtraIds
    /\ \E packet \in ErrPool(sh) :
        \E r \in {handle_packet(sh, packet, clock)} :
            /\ sh' = r.sh
            /\ last' = [ op |-> "handle_packet", packet |-> packet, ret |-> r.ret,
                         held |-> IF IsSome(packet.split_id)
                                  THEN FilledIndices(sh, Unwrap(packet.split_id)) ELSE {} ]
            /\ hist' = [hist EXCEPT
                   !.queued = IF packet = Fragment(FreshSplitId(sh), SplitN, 0)
                              THEN @ + 1 ELSE @]
            /\ UNCHANGED <<sess, env, rw, sw, clock>>

SpecSplitErr == Init /\ [][ErrHandlePacket]_vars

\* C36: a call of handle_packet that returns an error leaves the reassemblies
\* in progress, and the fragments they hold, as they were.
C36_ErrorDropsOnlyFragment ==
    [][ (last'.op = "handle_packet" /\ ~last'.ret.ok) =>
            sh'.reassembly_map = sh.reassembly_map ]_vars

\* C36 witness: a fragment whose split_count differs from the tracked one has
\* been refused; the reassembly of its split id held fragments and is gone.
C36_Witness ==
    /\ last.op = "handle_packet"
    /\ last.ret = Err("InvalidSplitPacket")
    /\ last.packet = Fragment(0, SplitN - 1, 0)
    /\ last.held /= {}
    /\ ~MapHas(sh.reassembly_map, 0)

\* The fragment names a split_count other than the one tracked for its id.
CountDiffers(h, packet) ==
    /\ IsSome(packet.split_id) /\ IsSome(packet.split_count) /\ IsSome(packet.split_index)
    /\ Unwrap(packet.split_count) > 0
    /\ Unwrap(packet.split_count) <= MAX_SPLIT_PARTS
    /\ Unwrap(packet.split_index) < Unwrap(packet.split_count)
    /\ MapHas(h.reassembly_map, Unwrap(packet.split_id))
    /\ h.reassembly_map[Unwrap(packet.split_id)].expected_count
           /= Unwrap(packet.split_count)

\* What the code meets: an error leaves the reassemblies as they were unless
\* the fragment names another split_count than the one tracked for its id;
\* then the reassembly of that id is removed, and no other.
ErrorKeepsMapUnlessCountDiffers ==
    [][ (last'.op = "handle_packet" /\ ~last'.ret.ok) =>
            IF CountDiffers(sh, last'.packet)
            THEN sh'.reassembly_map
                     = MapRemove(sh.reassembly_map, Unwrap(last'.packet.split_id))
            ELSE sh'.reassembly_map = sh.reassembly_map ]_vars


---------------------------------------------------------------------------
(* The life of a session: its inputs and its ticks                         *)

\* RakNetSession::handle_incoming on one of the inputs; last keeps the state
\* and the lengths of the queues the session sends from as they were before.
LifeHandleIncoming ==
    \E data \in ConnInputs :
        \E r \in {handle_incoming(SessOf, data, clock)} :
            /\ sess' = SessFields(r.s)
            /\ sw' = r.s.sw
            /\ rw' = r.s.rw
            /\ sh' = r.s.sh
            /\ last' = [ op |-> "handle_incoming", data |-> data,
                         before |-> sess.state,
                         acks |-> Len(rw.ack_queue),
                         payloads |-> r.payloads ]
            /\ UNCHANGED <<env, clock, hist>>

\* RakNetSession::tick, every socket write of which succeeds.
LifeTick ==
    \E r \in {RakNetSession_tick(rw, sw, clock, 0)} :
        /\ rw' = r.rw
        /\ sw' = r.sw
        /\ last' = [ op |-> "session_tick", before |-> sess.state,
                     acked |-> AckedOnWire(r.wire) ]
        /\ UNCHANGED <<sh, sess, env, clock, hist>>

LifeNext == LifeHandleIncoming \/ LifeTick \/ ConnAdvanceClock

SpecLife == Init /\ [][LifeNext]_vars

\* The place of a state in the order Connecting, Handshaking, Connected,
\* Disconnected. (No code assigns the enum's fifth value, Disconnecting.)
StateRank(state) ==
    CASE state = "Connecting" -> 0
      [] state = "Handshaking" -> 1
      [] state = "Connected" -> 2
      [] state = "Disconnected" -> 3

\* The step moves the state forward or leaves it, and enters Connected only
\* from Handshaking.
StateStepForward ==
    /\ StateRank(sess'.state) >= StateRank(sess.state)
    /\ (sess'.state = "Connected" /\ sess.state /= "Connected")
           => sess.state = "Handshaking"

\* The step adds nothing to what the session sends from: the packets queued
\* in the send window, the sequence numbers to acknowledge and those to
\* report missing.
NothingQueuedToSend ==
    /\ Len(sw'.packet_queue) <= Len(sw.packet_queue)
    /\ Len(rw'.ack_queue) <= Len(rw.ack_queue)
    /\ rw'.nack_queue \subseteq rw.nack_queue

\* C37: no input and no tick moves the session to an earlier state, Connected
\* is entered only from Handshaking, and once the state is Disconnected no
\* input or tick changes it or queues anything to send.
C37_StateForwardTerminal ==
    [][ /\ StateStepForward
        /\ sess.state = "Disconnected"
               => /\ sess'.state = "Disconnected"
                  /\ NothingQueuedToSend ]_vars

\* C37 witness: a session that was Disconnected has been given a datagram and
\* is still Disconnected, with one more sequence number to acknowledge than
\* before.
C37_Witness ==
    /\ last.op = "handle_incoming"
    /\ last.before = "Disconnected"
    /\ sess.state = "Disconnected"
    /\ last.data.datagram.ok
    /\ Len(rw.ack_queue) = last.acks + 1

\* The state moves only forward and Disconnected is never left, and a
\* Disconnected session queues no packet in its send window; what a
\* Disconnected session still queues are the sequence numbers to acknowledge
\* and to report missing.
StateForwardAndDisconnectedKept ==
    [][ /\ StateStepForward
        /\ sess.state = "Disconnected"
               => /\ sess'.state = "Disconnected"
                  /\ Len(sw'.packet_queue) <= Len(sw.packet_queue) ]_vars


---------------------------------------------------------------------------
(* The bytes in flight and the unacknowledged map                          *)

\* The send window under packets queued, datagrams taken, ACKs and NACKs
\* that name what was sent or was not, and retransmission timeouts.
FlightNext ==
    \/ NackQueuePacket
    \/ SendAssignAckId
    \/ SendGetNextDatagram
    \/ AgainHandleAck
    \/ NackHandleNack
    \/ SendTick
    \/ SendAdvanceClock

SpecFlight == Init /\ [][FlightNext]_vars

\* The sizes, as Datagram::calculate_size gives them, of the datagrams that
\* the unacknowledged map holds under seqs.
RECURSIVE SumDatagram_calculate_size(_, _)
SumDatagram_calculate_size(w, seqs) ==
    IF seqs = {} THEN 0
    ELSE LET s == SetMin(seqs)
         IN  Datagram_calculate_size(w.pending_datagrams[s].datagram)
             + SumDatagram_calculate_size(w, seqs \ {s})

\* C38: in every state of the send window bytes_in_flight is the sum of the
\* sizes of the datagrams in the unacknowledged map: 0 when the map is empty,
\* and a retransmitted datagram is counted once.
C38_InFlightIsSumOfPending ==
    sw.bytes_in_flight = SumDatagram_calculate_size(sw, DOMAIN sw.pending_datagrams)

\* C38 witness: a datagram has just been retransmitted while another one is
\* unacknowledged next to it.
C38_Witness ==
    /\ last.op = "get_next_datagram"
    /\ last.kind = "resend"
    /\ Cardinality(DOMAIN sw.pending_datagrams) >= 2
    /\ ReturnedDatagram.sequence_number \in DOMAIN sw.pending_datagrams
    /\ sw.bytes_in_flight > Datagram_calculate_size(ReturnedDatagram)

\* The map becomes empty again after datagrams were in flight, and in between
\* the size recorded with each datagram is the size counted for it.
InFlightSizesRecorded ==
    \A s \in DOMAIN sw.pending_datagrams :
        CongestionSize(sw.pending_datagrams[s].datagram)
            = Datagram_calculate_size(sw.pending_datagrams[s].datagram)

InFlightDrained ==
    /\ last.op = "handle_ack"
    /\ hist.acked /= {}
    /\ sw.pending_datagrams = EmptyMap
    /\ sw.bytes_in_flight = 0


---------------------------------------------------------------------------
(* Sequence numbers at the end of the 24-bit range                         *)

\* The number of values of a 24-bit sequence number on the wire.
U24Modulus == 16777216

\* write_u24_le followed by read_u24_le: put_uint_le(value, 3) writes the low
\* three bytes of the u32, and the reader gets them back as a u32.
WireSequence(seq) == seq % U24Modulus

\* The datagrams of each direction that the run goes through.
WrapMaxDatagrams == 4

\* How many datagrams each side has exchanged when the run begins: none, or
\* all but the last two of the 24-bit range.
WrapStarts == {0, U24Modulus - 2}

\* The packet the server queues, and the size of the datagram that carries it.
WrapPayload == Fill(0, 1)

WrapDatagramSize == (1 + 3) + (1 + 2) + 3 + BytesLen(WrapPayload)

\* The receive window after the peer's first n datagrams arrived in order and
\* were acknowledged.
ReceiveWindowAfter(n) ==
    [ ReceiveWindow_new EXCEPT
          !.expected_sequence_number = n,
          !.highest_received_in_window = IF n = 0 THEN 0 ELSE n - 1 ]

\* The send window after n datagrams, each with one reliable packet of
\* WrapPayload, were sent and acknowledged without loss while the clock read
\* 0: slow start has added the size of each to cwnd.
SendWindowAfter(n) ==
    IF n = 0 THEN SendWindow_new(Mtu, 0)
    ELSE [ SendWindow_new(Mtu, 0) EXCEPT
               !.next_sequence_number = n,
               !.next_message_index = n,
               !.srtt = Some(Duration(0, 0)),
               !.rtt_var = Some(Duration(0, 0)),
               !.rto = MIN_RTO,
               !.cwnd = @ + n * WrapDatagramSize ]

InitWrap ==
    \E n \in WrapStarts :
        /\ rw = ReceiveWindowAfter(n)
        /\ sw = SendWindowAfter(n)
        /\ sh = SplitPacketHandler_new
        /\ sess = SessFields(RakNetSession_new(PeerAddress, Mtu, 0))
        /\ env = [start |-> n, peer_next |-> n, sent |-> {}, acked |-> {}]
        /\ clock = 0
        /\ hist = HistInit
        /\ last = NoCall

\* ReceiveWindow::handle_datagram for the peer's datagram number count, which
\* carries the low 24 bits of its number.
WrapHandle(count, first) ==
    \E r \in {ReceiveWindow_handle_datagram(
                  rw, RecvDatagram(WireSequence(count), <<PlainPacket(0)>>))} :
        /\ rw' = r.rw
        /\ last' = [ op |-> "handle_datagram", count |-> count,
                     wire |-> WireSequence(count), first |-> first,
                     in_order |-> /\ first
                                  /\ rw.received_datagrams = {}
                                  /\ WireSequence(rw.expected_sequence_number)
                                         = WireSequence(count),
                     accepted |-> r.accepted ]
        /\ env' = [env EXCEPT !.peer_next = IF first THEN @ + 1 ELSE @]
        /\ UNCHANGED <<sess, sh, sw, clock, hist>>

\* The peer's next datagram arrives.
WrapPeerDatagram ==
    /\ env.peer_next < env.start + WrapMaxDatagrams
    /\ WrapHandle(env.peer_next, TRUE)

\* A datagram that the peer sent before arrives once more.
WrapPeerDuplicate ==
    \E count \in env.start .. (env.peer_next - 1) : WrapHandle(count, FALSE)

\* ReceiveWindow::create_ack_packet
WrapCreateAck ==
    \E r \in {create_ack_packet(rw)} :
        /\ rw' = r.rw
        /\ last' = [op |-> "create_ack_packet", ret |-> r.ret]
        /\ UNCHANGED <<sess, sh, sw, env, clock, hist>>

\* SendWindow::queue_packet, called when the queue is empty: every datagram
\* carries one packet.
WrapQueuePacket ==
    /\ sw.next_message_index < env.start + WrapMaxDatagrams
    /\ sw.packet_queue = <<>>
    /\ sw' = queue_packet(sw, WrapPayload, "Reliable", None).sw
    /\ last' = [op |-> "queue_packet"]
    /\ UNCHANGED <<sess, sh, rw, env, clock, hist>>

\* SendWindow::get_next_datagram; wire is the sequence number that the
\* datagram's encoding carries.
WrapGetNextDatagram ==
    \E r \in {get_next_datagram(sw, clock)} :
        /\ sw' = r.sw
        /\ last' = [ op |-> "get_next_datagram", ret |-> r.ret,
                     wire |-> IF IsSome(r.ret)
                              THEN Some(WireSequence(Unwrap(r.ret).sequence_number))
                              ELSE None ]
        /\ env' = [env EXCEPT
               !.sent = IF IsSome(r.ret)
                        THEN @ \cup {Unwrap(r.ret).sequence_number} ELSE @]
        /\ UNCHANGED <<sess, sh, rw, clock, hist>>

\* SendWindow::handle_ack for the ACK by which the peer acknowledges one of
\* the datagrams it got: the ACK names the sequence number that the wire
\* carried. key is the number under which the datagram is recorded.
WrapPeerAck ==
    \E key \in env.sent \ env.acked :
        /\ sw' = handle_ack(sw, <<Single(WireSequence(key))>>, clock)
        /\ last' = [ op |-> "handle_ack", key |-> key,
                     wire |-> WireSequence(key),
                     pending |-> MapHas(sw.pending_datagrams, key) ]
        /\ env' = [env EXCEPT !.acked = @ \cup {key}]
        /\ UNCHANGED <<sess, sh, rw, clock, hist>>

WrapNext ==
    \/ WrapPeerDatagram
    \/ WrapPeerDuplicate
    \/ WrapCreateAck
    \/ WrapQueuePacket
    \/ WrapGetNextDatagram
    \/ WrapPeerAck

SpecWrap == InitWrap /\ [][WrapNext]_vars

\* C39: sequence numbers are handled modulo 2^24. A datagram that carries the
\* wire sequence following the last one accepted in order is accepted as new,
\* also when that wire sequence is 0 after 2^24 - 1; and an ACK that names the
\* wire sequence of a datagram in the unacknowledged map, also one sent after
\* the counter passed 2^24 - 1, removes that datagram from the map.
C39_WrapAwareSequences ==
    /\ (last.op = "handle_datagram" /\ last.in_order) => last.accepted
    /\ (last.op = "handle_ack" /\ last.pending) =>
           ~MapHas(sw.pending_datagrams, last.key)

\* C39 witness: the peer's datagrams up to number 2^24 - 1 were accepted in
\* order, and its next datagram, with wire sequence 0, has just been refused.
C39_Witness ==
    /\ last.op = "handle_datagram"
    /\ last.in_order
    /\ last.count = U24Modulus
    /\ last.wire = 0
    /\ rw.expected_sequence_number = U24Modulus
    /\ ~last.accepted

\* The send side of the same: the datagram recorded under 2^24 went out with
\* wire sequence 0, the peer's ACK named 0, and the datagram is still in the
\* unacknowledged map.
WrapAckUnmatched ==
    /\ last.op = "handle_ack"
    /\ last.key = U24Modulus
    /\ last.wire = 0
    /\ MapHas(sw.pending_datagrams, U24Modulus)

\* The windows compare and look up the numbers as plain 32-bit values: the
\* counters run on past 2^24 - 1, an in-order datagram is accepted exactly
\* while its number is below 2^24, and an ACK matches exactly the datagrams
\* recorded under a number below 2^24.
SequencesComparedUnwrapped ==
    /\ rw.expected_sequence_number <= U24Modulus
    /\ sw.next_sequence_number = env.start + Cardinality(env.sent)
    /\ (last.op = "handle_datagram" /\ last.first) =>
           (last.accepted <=> last.count < U24Modulus)
    /\ (last.op = "handle_ack" /\ last.pending) =>
           (MapHas(sw.pending_datagrams, last.key) <=> last.key >= U24Modulus)

\* The windows the runs begin with are the windows that the code reaches:
\* whenever everything received was acknowledged, and everything sent was,
\* the windows are those of the count of datagrams exchanged.
WindowsAsAfterCount ==
    /\ (rw.received_datagrams = {} /\ rw.ack_queue = <<>>) =>
           rw = ReceiveWindowAfter(rw.expected_sequence_number)
    /\ (sw.pending_datagrams = EmptyMap /\ sw.packet_queue = <<>>) =>
           sw = SendWindowAfter(sw.next_sequence_number)


---------------------------------------------------------------------------
(* The replies to OpenConnectionRequest2                                   *)

\* The MTUs of the requests: the ends of the accepted range and the values
\* next to them.
Ocr2GoodMtus == {MIN_MTU_SIZE, RakNetServerConfig_default.mtu}

Ocr2BadMtus == {MIN_MTU_SIZE - 1, RakNetServerConfig_default.mtu + 1}

\* Requests that the handler cannot decode: cut inside the magic, with
\* another magic, cut inside the server's address, the MTU or the GUID.
Ocr2Malformed ==
    { BytesSlice(Ocr2Bytes(MIN_MTU_SIZE), 0, 1 + 15),
      BytesJoin(<< Fill(OPEN_CONNECTION_REQUEST_2, 1), Fill(0, 16),
                   BytesSlice(Ocr2Bytes(MIN_MTU_SIZE), 17, 7 + 2 + 8) >>),
      BytesSlice(Ocr2Bytes(MIN_MTU_SIZE), 0, 1 + 16 + 6),
      BytesSlice(Ocr2Bytes(MIN_MTU_SIZE), 0, 1 + 16 + 7 + 1),
      BytesSlice(Ocr2Bytes(MIN_MTU_SIZE), 0, 1 + 16 + 7 + 2 + 7) }

Ocr2WellFormed == { Ocr2Bytes(mtu) : mtu \in Ocr2GoodMtus }

Ocr2Inputs ==
    Ocr2WellFormed \cup { Ocr2Bytes(mtu) : mtu \in Ocr2BadMtus } \cup Ocr2Malformed

\* run, the recv branch, for an OpenConnectionRequest2 from one of the remote
\* addresses; send_ok tells whether the handler's send_to succeeds.
Ocr2Recv ==
    \E src_addr \in ListenerAddrs, raw \in Ocr2Inputs, send_ok \in BOOLEAN :
        \E r \in {handle_incoming_packet(env.sessions, RawBytes(raw), src_addr,
                                         ServerGuid, ListenerConfig, clock, send_ok)} :
            /\ env' = [env EXCEPT !.sessions = r.sessions]
            /\ last' = [ op |-> "recv", src_addr |-> src_addr,
                         id |-> RawBytes(raw).id, raw |-> raw, send_ok |-> send_ok,
                         known |-> MapHas(env.sessions, src_addr),
                         sent |-> r.sent, payloads |-> r.payloads ]
            /\ UNCHANGED <<rw, sh, sw, sess, clock, hist>>

Ocr2Next == Ocr2Recv \/ ListenerAdvanceClock

SpecOcr2 == InitListener /\ [][Ocr2Next]_vars

\* An OpenConnectionReply2 is among the packets sent.
RepliedWith2(sent) ==
    \E i \in DOMAIN sent : Head(sent[i]).byte = OPEN_CONNECTION_REPLY_2

\* C40: the handler sends OpenConnectionReply2 to an address only when the
\* request makes a session for that address; a request refused for its
\* encoding, its magic, its MTU or the connection limit gets no
\* OpenConnectionReply2.
C40_ReplyOnlyWithSession ==
    (last.op = "recv" /\ RepliedWith2(last.sent)) =>
        /\ ~last.known
        /\ MapHas(env.sessions, last.src_addr)

\* C40 witness: the registry holds max_connections sessions, none of them for
\* the address whose well-formed request has just been answered with an
\* OpenConnectionReply2.
C40_Witness ==
    /\ last.op = "recv"
    /\ last.raw \in Ocr2WellFormed
    /\ last.send_ok
    /\ RepliedWith2(last.sent)
    /\ Cardinality(DOMAIN env.sessions) = ListenerConfig.max_connections
    /\ last.src_addr \notin DOMAIN env.sessions

\* The reply is sent exactly for the well-formed requests with an MTU in
\* range from an address without a session, when send_to succeeds: before the
\* connection limit is looked at.
Ocr2RepliedBeforeLimit ==
    last.op = "recv" =>
        /\ RepliedWith2(last.sent)
               <=> (~last.known /\ last.raw \in Ocr2WellFormed /\ last.send_ok)
        /\ (RepliedWith2(last.sent) /\ ~MapHas(env.sessions, last.src_addr))
               => Cardinality(DOMAIN env.sessions) >= ListenerConfig.max_connections

============================================================================
